---- MODULE Spec2Model ----
(***************************************************************************)
(* Relay engine of the Telegram customer-service bridge.                   *)
(*                                                                         *)
(* The specifications of this module share its variables:                  *)
(*   SpecRetry  the retry policy retry_with_backoff (app/telegram/utils.py)*)
(*   Spec       the group-aware relay of single messages: utils.py,        *)
(*              group_handlers.py and callbacks.py as wired by             *)
(*              telegram_bot.py                                            *)
(*   SpecStale  the private relay over a transport that fails more often   *)
(*   SpecBatch  the relay of albums through the timers of the job queue    *)
(*   SpecTopic  create_or_get_user_topic run by tasks that interleave at   *)
(*              its awaits                                                 *)
(*   SpecBot    the private-only relay of app/telegram/bot.py, the only    *)
(*              place that handles thread closed / reopened signals        *)
(*   SpecLate, SpecSkip, SpecQueueless, SpecAlert                          *)
(*              albums with a late part, with a part deleted by its        *)
(*              sender, without a job queue; alerts among group chatter    *)
(*   SpecFaulty single messages and albums over a transport that may fail  *)
(*   SpecDelivery  operators' messages whose delivery ends with an error   *)
(*   SpecLabel  the label of an existing thread following the user's tier  *)
(***************************************************************************)
EXTENDS Integers, Sequences, FiniteSets, TLC

(***************************************************************************)
(* Retry policy: state of one call of retry_with_backoff.                  *)
(***************************************************************************)
VARIABLES
    max_retries,    \* retry_config["max_retries"]
    initial_wait,   \* retry_config["initial_wait"]
    wait_time,      \* local wait_time
    retries,        \* local retries
    attempts,       \* outcomes of the invocations of func so far, in order
    slept,          \* arguments of asyncio.sleep so far, in order
    rresult         \* [kind, recreation]: "running", "ok", or the error raised

retryVars == <<max_retries, initial_wait, wait_time, retries, attempts, slept, rresult>>

\* Largest TELEGRAM_MAX_RETRIES the model configures.
MaxRetriesCfg == 3

\* "max_wait": 60.0 in get_retry_config.
max_wait == 60

\* Values of TELEGRAM_RETRY_INITIAL_WAIT the model configures (seconds).
InitialWaits == {1, 20, 45}

\* What one invocation of a transport call can do: return, or raise
\* TimedOut / NetworkError ("transient"), BadRequest naming a missing thread
\* or chat ("stale"), another BadRequest ("badreq"), Forbidden ("forbidden").
Outcomes == {"ok", "transient", "stale", "badreq", "forbidden"}

Min(a, b) == IF a < b THEN a ELSE b

get_retry_config(m, w) == [max_retries |-> m, initial_wait |-> w, max_wait |-> max_wait]

\* A retry budget that gives up one invocation early.
RetryBudgetSpentEarly(r, m) == r >= m

\* The test `retries > max_retries` that ends the retrying.
RetryBudgetSpent(r, m) == r > m

\* The test of a BadRequest for "message thread not found" / "chat not
\* found"; the variant recognises no error as stale.
IsStaleErrorNever(o) == FALSE
IsStaleError(o) == o = "stale"

\* wait_time = min(wait_time * 2, max_wait)
NextWait(w) == Min(w * 2, max_wait)

RetryInit ==
    /\ max_retries \in 0..MaxRetriesCfg
    /\ initial_wait \in InitialWaits
    /\ wait_time = initial_wait
    /\ retries = 0
    /\ attempts = <<>>
    /\ slept = <<>>
    /\ rresult = [kind |-> "running", recreation |-> FALSE]

\* One turn of the `while True` loop of retry_with_backoff: func is invoked
\* and returns or raises `o`.
retry_with_backoff(o) ==
    /\ rresult.kind = "running"
    /\ attempts' = Append(attempts, o)
    /\ CASE o = "ok" ->
              /\ rresult' = [kind |-> "ok", recreation |-> FALSE]
              /\ UNCHANGED <<retries, wait_time, slept>>
         [] IsStaleError(o) ->
              /\ rresult' = [kind |-> "stale", recreation |-> TRUE]
              /\ UNCHANGED <<retries, wait_time, slept>>
         [] o = "transient" ->
              /\ retries' = retries + 1
              /\ IF RetryBudgetSpent(retries + 1, max_retries)
                 THEN /\ rresult' = [kind |-> "transient", recreation |-> FALSE]
                      /\ UNCHANGED <<wait_time, slept>>
                 ELSE /\ wait_time' = NextWait(wait_time)
                      /\ slept' = Append(slept, NextWait(wait_time))
                      /\ UNCHANGED rresult
         [] OTHER ->
              /\ rresult' = [kind |-> o, recreation |-> FALSE]
              /\ UNCHANGED <<retries, wait_time, slept>>
    /\ UNCHANGED <<max_retries, initial_wait>>

RetryNext == \E o \in Outcomes : retry_with_backoff(o)


(***************************************************************************)
(* Relay state: the four tables, the job queue, and the admin forum as far *)
(* as the handlers can observe it.                                         *)
(***************************************************************************)
VARIABLES
    formn_status,          \* table formn_status, rows in insertion order
    message_map,           \* table message_map, rows in insertion order
    media_group_messages,  \* table media_group_messages, rows in insertion order
    user_table,            \* table user: per user, "none" | "active" | "banned"
    message_thread_id,     \* column user.message_thread_id, used by bot.py only
    job_queue,             \* pending run_once jobs of context.job_queue
    keyboards,             \* inline buttons shown in the admin forum
    next_id,               \* per chat, the id its next message gets
    now,                   \* wall clock, seconds
    premium,               \* per user, whether Telegram reports is_premium
    budget,                \* what the environment may still do in this run
    delivered,             \* history: copies made by send_copy / send_copies
    rejected,              \* history: messages answered with the banned notice
    deleted,               \* messages their senders have deleted from their chat
    has_job_queue,         \* context.job_queue is not None
    ev,                    \* history: what the handler that ran last did
    tasks                  \* per task in create_or_get_user_topic, where it is

relayVars == <<formn_status, message_map, media_group_messages, user_table, message_thread_id,
               job_queue, keyboards, next_id, now, premium, budget, delivered, rejected,
               deleted, has_job_queue, ev>>

\* telegram_config.admin_group_id
admin_group_id == -1001

\* context.bot.id
BotId == 900

\* Telegram ids of the operators, the end users and the source groups.
Operators == {500}
Users == {1}
Groups == {-2002}

\* A private chat has the id of its user.
Chats == {admin_group_id} \cup Users \cup Groups

\* UNREAD_TOPIC_NAME; a thread name is a sequence of pieces of text.
UNREAD_TOPIC_NAME == <<"unread">>

\* Failures the transport may inject in one run of the system.
MaxFaults == 1

\* Transport calls of one handler run that a failure can hit.
MaxCalls == 6

\* What a completed transport call reports to its caller: success, a
\* BadRequest naming a missing thread or chat, or any other error (a retry
\* budget spent on transient errors included).
Reports == {"ok", "stale", "fail"}

\* What the caller of retry_with_backoff sees for each way the call ends.
Report(kind) == CASE kind = "ok" -> "ok" [] kind = "stale" -> "stale" [] OTHER -> "fail"

RECURSIVE Faults(_)
Faults(s) == IF s = <<>> THEN 0 ELSE (IF Head(s) = "ok" THEN 0 ELSE 1) + Faults(Tail(s))

\* The failures among them.
FaultReports == Reports \ {"ok"}

\* The reports the transport gives to the successive calls of one handler
\* run, written up to the last failure (the calls after it succeed): at most
\* k failures within the first n calls.
RECURSIVE OraclesWith(_, _)
OraclesWith(k, n) ==
    IF k = 0 THEN {<<>>}
    ELSE LET less == OraclesWith(k - 1, n)
         IN  less \cup {o \o [i \in 1..g |-> "ok"] \o <<r>> :
                           o \in {x \in less : Faults(x) = k - 1},
                           g \in 0..(n - 1), r \in FaultReports}

\* For a handler run in which n calls can fail, given the failures the
\* transport has injected so far.
Oracles(n) == {o \in OraclesWith(budget.faults, n) : Len(o) <= n}

NoEvent == [op |-> "none", user |-> 0, from_group |-> FALSE, source_group_id |-> 0,
            notice |-> "", relayed |-> <<>>, recreations |-> 0, alerts |-> 0,
            marked |-> 0, stored |-> 0, scheduled |-> 0,
            batch |-> <<>>, calls |-> 0, resolved |-> <<>>, posts |-> <<>>,
            signal |-> "none", error |-> "none", transport |-> {}, tier |-> "none"]

\* The state a handler run works on, with the transport reports still to come.
World(orc) == [fs |-> formn_status, mm |-> message_map, mg |-> media_group_messages,
               ut |-> user_table, th |-> message_thread_id, jq |-> job_queue, kb |-> keyboards, ids |-> next_id,
               dl |-> delivered, rj |-> rejected, gone |-> deleted,
               sched |-> has_job_queue, ev |-> NoEvent, orc |-> orc]

\* A handler run ends: its effects become the state.  Every failure the
\* transport had in store has been reported.
Commit(w) ==
    /\ w.orc = <<>>
    /\ UNCHANGED <<now, premium, deleted, has_job_queue, tasks, retryVars>>
    /\ formn_status' = w.fs
    /\ message_map' = w.mm
    /\ media_group_messages' = w.mg
    /\ user_table' = w.ut
    /\ message_thread_id' = w.th
    /\ job_queue' = w.jq
    /\ keyboards' = w.kb
    /\ next_id' = w.ids
    /\ delivered' = w.dl
    /\ rejected' = w.rj
    /\ ev' = w.ev

\* The report of the next transport call, and the world after the call.
Ask(w) == IF w.orc = <<>> THEN "ok" ELSE Head(w.orc)
Used(w) == [w EXCEPT !.orc = IF @ = <<>> THEN @ ELSE Tail(@)]

\* The handler has called `method` of the transport, through
\* retry_with_backoff or directly.
Called(w, method, retried) ==
    [w EXCEPT !.ev.transport = @ \cup {[method |-> method, retried |-> retried]}]

\* A message appears in a chat and takes the chat's next id.
NewId(w, chat) == w.ids[chat]
Posted(w, chat) == [w EXCEPT !.ids[chat] = @ + 1]

\* The transport reports thread `thread_id` as missing: the messages it held
\* are gone, and their buttons with them.
Missing(w, thread_id) == [w EXCEPT !.kb = {b \in @ : b.thread_id # thread_id}]

\* query.first(): index of the first row satisfying Test, 0 if there is none.
FirstRow(rows, Test(_)) ==
    IF \E i \in DOMAIN rows : Test(rows[i])
    THEN CHOOSE i \in DOMAIN rows : Test(rows[i]) /\ \A j \in 1..(i - 1) : ~Test(rows[j])
    ELSE 0

\* db.delete(row); the variant deletes nothing.
RemoveNone(rows, i) == rows
RemoveAt(rows, i) == [j \in 1..(Len(rows) - 1) |-> IF j < i THEN rows[j] ELSE rows[j + 1]]

\* What the environment may do in one run: transport failures, messages
\* per user-side chat, operator messages, callback queries, changes of a
\* user's Premium status.
Budget(f, i, o, c, p) ==
    [faults |-> f, inbound |-> i, operator |-> o, callback |-> c, premium |-> p]

RelayState(b) ==
    /\ formn_status = <<>>
    /\ message_map = <<>>
    /\ media_group_messages = <<>>
    /\ user_table = [u \in Users |-> "none"]
    /\ message_thread_id = [u \in Users |-> 0]
    /\ job_queue = {}
    /\ keyboards = {}
    /\ next_id = [c \in Chats |-> 1]
    /\ now = 0
    /\ premium = [u \in Users |-> FALSE]
    /\ budget = b
    /\ delivered = {}
    /\ rejected = {}
    /\ deleted = {}
    /\ ev = NoEvent

\* The application is built with a JobQueue.
RelayInit(b) ==
    /\ RelayState(b)
    /\ has_job_queue = TRUE

(***************************************************************************)
(* Thread registry                                                         *)
(***************************************************************************)
\* The pieces a thread name is made of: the group prefix "[群组] ", the
\* premium marker, and a piece of the text of a name.
GroupPrefix == "[G]"
premium_mark == "*"

\* name[:64], the longest name kept, counted in pieces.
MaxNameLen == 4
Truncated(name) == SubSeq(name, 1, IF Len(name) < MaxNameLen THEN Len(name) ELSE MaxNameLen)

\* str.replace(piece, ''): every occurrence of the piece is removed.
Without(name, piece) == SelectSeq(name, LAMBDA x : x # piece)

\* user.first_name of the users of the relay.
FirstName == <<"N">>

\* topic_name[:64] of a new user thread: group prefix, premium marker, name.
TopicNameOf(first_name, from_group, is_premium) ==
    Truncated((IF from_group THEN <<GroupPrefix>> ELSE <<>>)
              \o (IF is_premium THEN <<premium_mark>> ELSE <<>>)
              \o first_name)

NewTopicName(from_group, is_premium) == TopicNameOf(FirstName, from_group, is_premium)

\* premium_mark in topic_name
HasMark(name) == \E i \in DOMAIN name : name[i] = premium_mark

\* A test of the marker that looks at the first piece of the name only.
StartsMarkedPrivate(name, from_group) == name # <<>> /\ name[1] = premium_mark

\* topic_name.startswith(mark), or for a group thread startswith("[G] " + mark)
StartsMarked(name, from_group) ==
    \/ name # <<>> /\ name[1] = premium_mark
    \/ from_group /\ Len(name) >= 2 /\ name[1] = GroupPrefix /\ name[2] = premium_mark

\* new_topic_name[:64] of the two renaming branches.
AddMark(name, from_group) ==
    Truncated(IF from_group THEN <<GroupPrefix, premium_mark>> \o Without(name, GroupPrefix)
              ELSE <<premium_mark>> \o name)
RemoveMark(name, from_group) ==
    Truncated(IF from_group
              THEN <<GroupPrefix>> \o Without(Without(name, GroupPrefix), premium_mark)
              ELSE Without(name, premium_mark))

\* The name the thread should carry; needs_update iff it differs.
Renamed(name, is_premium, from_group) ==
    IF is_premium /\ ~StartsMarked(name, from_group) THEN AddMark(name, from_group)
    ELSE IF ~is_premium /\ HasMark(name) THEN RemoveMark(name, from_group)
    ELSE name

\* The filter of the thread lookup: user and source kind, and the group id
\* only when the message comes from a group with a known id.
IsThreadOf(row, user, from_group, source_group_id) ==
    /\ row.user_id = user
    /\ row.from_group = from_group
    /\ (from_group /\ source_group_id # 0) => row.source_group_id = source_group_id

\* A formn_status row of a user thread.
ThreadRow(user, topic_id, name, from_group, source_group_id) ==
    [user_id |-> user, topic_id |-> topic_id, topic_name |-> name,
     from_group |-> from_group,
     source_group_id |-> IF from_group THEN source_group_id ELSE 0,
     is_system_topic |-> FALSE]

\* A formn_status row of a system thread.
SystemRow(topic_id, name) ==
    [user_id |-> 0, topic_id |-> topic_id, topic_name |-> name, from_group |-> FALSE,
     source_group_id |-> 0, is_system_topic |-> TRUE]

\* An inline button under a message of the admin forum: the message and its
\* thread, the callback data (kind and argument), and for the history the
\* source the message was posted for.
Button(message_id, thread_id, kind, arg, from_group, source_group_id) ==
    [message_id |-> message_id, thread_id |-> thread_id, kind |-> kind, arg |-> arg,
     from_group |-> from_group, source_group_id |-> source_group_id]

\* A variant that creates the remote thread and its intro but keeps no row.
CreateUnrecorded(w, user, is_premium, from_group, source_group_id) ==
    [w |-> Posted(Posted(w, admin_group_id), admin_group_id),
     topic |-> NewId(w, admin_group_id)]

\* The second half of create_or_get_user_topic: create the remote thread,
\* insert and commit its row, then post the intro with its two buttons.  Any
\* exception ends the call with None (0), the committed row staying.
CreateUserTopic(w, user, is_premium, from_group, source_group_id) ==
    LET c == Ask(w)
        tid == NewId(w, admin_group_id)
        sg == IF from_group THEN source_group_id ELSE 0
        w1 == [Posted(Used(w), admin_group_id) EXCEPT
                  !.fs = Append(@, ThreadRow(user, tid, NewTopicName(from_group, is_premium),
                                             from_group, source_group_id))]
        i == Ask(w1)
        intro == NewId(w1, admin_group_id)
        w2 == [Posted(Used(w1), admin_group_id) EXCEPT
                  !.kb = @ \cup {Button(intro, tid, "read_all", user, from_group, sg),
                                 Button(intro, tid, "ban", user, from_group, sg)}]
    IN  IF c # "ok" THEN [w |-> Used(w), topic |-> 0]
        ELSE IF i # "ok" THEN [w |-> Used(w1), topic |-> 0]
        ELSE [w |-> w2, topic |-> tid]

\* bot.edit_forum_topic has been called, outside retry_with_backoff.
Edited(w) == Called(Used(w), "edit_forum_topic", FALSE)

\* create_or_get_user_topic: the thread id of (user, source), 0 for None.
\* The history notes what each call returned.
create_or_get_user_topic(w, user, is_premium, from_group, source_group_id) ==
    LET k == FirstRow(w.fs, LAMBDA row : IsThreadOf(row, user, from_group, source_group_id))
        row == w.fs[k]
        name == Renamed(row.topic_name, is_premium, from_group)
        needs_update == name # row.topic_name
        e == Ask(w)
        r == IF k = 0 THEN CreateUserTopic(w, user, is_premium, from_group, source_group_id)
             ELSE IF ~needs_update THEN [w |-> w, topic |-> row.topic_id]
             ELSE IF e = "ok"
                  THEN [w |-> [Edited(w) EXCEPT !.fs[k].topic_name = name], topic |-> row.topic_id]
             ELSE IF e = "stale"
                  THEN CreateUserTopic([Missing(Edited(w), row.topic_id) EXCEPT !.fs = RemoveAt(@, k)],
                                       user, is_premium, from_group, source_group_id)
             ELSE [w |-> Edited(w), topic |-> row.topic_id]
    IN  [w |-> [r.w EXCEPT !.ev.resolved = Append(@, r.topic)], topic |-> r.topic]

\* get_system_topic: the id of the system thread of that name, created on
\* first use; 0 for None.
get_system_topic(w, topic_name) ==
    LET k == FirstRow(w.fs, LAMBDA row : row.topic_name = topic_name /\ row.is_system_topic)
        c == Ask(w)
        tid == NewId(w, admin_group_id)
        w1 == [Posted(Used(w), admin_group_id) EXCEPT !.fs = Append(@, SystemRow(tid, topic_name))]
        i == Ask(w1)
    IN  IF k # 0 THEN [w |-> w, topic |-> w.fs[k].topic_id]
        ELSE IF c # "ok" THEN [w |-> Used(w), topic |-> 0]
        ELSE IF i # "ok" THEN [w |-> Used(w1), topic |-> 0]
        ELSE [w |-> Posted(Used(w1), admin_group_id), topic |-> tid]

(***************************************************************************)
(* Cross-reference store and unread alerts                                 *)
(***************************************************************************)
\* A new message_map row; the unread and handling columns take their defaults.
MapRow(user, user_msg, group_msg, is_from_group, source_group_id) ==
    [user_telegram_id |-> user, user_chat_message_id |-> user_msg,
     group_chat_message_id |-> group_msg, is_unread_topic |-> FALSE,
     unread_topic_message_id |-> 0, handled_by_user_id |-> 0, handled_time |-> -1,
     is_from_group |-> is_from_group, source_group_id |-> source_group_id]

\* The filter of the unread queries: the user's unread rows of one source.
\* A private source ignores the group id column.
IsUnreadOf(row, user, is_from_group, source_group_id) ==
    /\ row.user_telegram_id = user
    /\ row.is_unread_topic
    /\ IF is_from_group
       THEN row.is_from_group /\ row.source_group_id = source_group_id
       ELSE ~row.is_from_group

\* query.all(): the indices of the rows satisfying Test, in table order.
AllRows(rows, Test(_)) == SelectSeq([i \in 1..Len(rows) |-> i], LAMBDA i : Test(rows[i]))

\* One copy made by the transport: message from_id of from_chat, which
\* replies to message replied_to of its chat (0 for none), appears as to_id
\* in to_chat, sent with reply_to_message_id = reply_to (0 for none).
Copy(dir, user, from_chat, from_id, replied_to, to_chat, to_id, thread, reply_to) ==
    [dir |-> dir, user |-> user, from_chat |-> from_chat, from_id |-> from_id,
     replied_to |-> replied_to, to_chat |-> to_chat, to_id |-> to_id, thread |-> thread,
     reply_to |-> reply_to]

\* As the handler of MarkRows: handled_by_user_id is left as it is.
KeepHandler == -1

\* The variant of the loop below: it handles the first row only and asks
\* for no deletion.
MarkFirstRow(w, idxs, handler) ==
    IF idxs = <<>> THEN w
    ELSE [w EXCEPT !.mm[Head(idxs)].is_unread_topic = FALSE,
                   !.mm[Head(idxs)].handled_by_user_id = handler,
                   !.mm[Head(idxs)].handled_time = now,
                   !.ev.marked = @ + 1]

\* A variant that forgets the first row it is given instead of marking it.
MarkAndForget(w, idxs, handler) ==
    IF idxs = <<>> THEN w
    ELSE [w EXCEPT !.mm = RemoveAt(@, Head(idxs)), !.ev.marked = @ + 1]

\* context.bot.delete_message has been called, outside retry_with_backoff.
Deleted(w) == Called(Used(w), "delete_message", FALSE)

\* The loop that marks rows as handled: clear the flag, stamp handler and
\* time, and delete the row's alert if it has one, ignoring a failed delete.
RECURSIVE MarkRows(_, _, _)
MarkRows(w, idxs, handler) ==
    IF idxs = <<>> THEN w
    ELSE LET k == Head(idxs)
             alert == w.mm[k].unread_topic_message_id
             w1 == [w EXCEPT !.mm[k].is_unread_topic = FALSE,
                             !.mm[k].handled_by_user_id = IF handler = KeepHandler THEN @ ELSE handler,
                             !.mm[k].handled_time = now,
                             !.ev.marked = @ + 1]
             d == Ask(w1)
             w2 == IF alert = 0 THEN w1
                   ELSE IF d = "ok"
                        THEN [Deleted(w1) EXCEPT !.kb = {b \in @ : b.message_id # alert}]
                        ELSE Deleted(w1)
         IN  MarkRows(w2, Tail(idxs), handler)

\* The automatic mark-read of the relay handlers: every unread row of the
\* user and source is handled by the bot itself.
AutoMarkRead(w, user, is_from_group, source_group_id) ==
    MarkRows(w, AllRows(w.mm, LAMBDA row : IsUnreadOf(row, user, is_from_group, source_group_id)),
             BotId)

\* The alert of send_to_unread_topic is posted in thread `unread`: the row of
\* the mirror is flagged and remembers the alert, whose buttons are the deep
\* link to thread `link`, read_<mirror id> and ban_<user>.
AlertPosted(w, k, user, admin_message, link, unread) ==
    LET alert == NewId(w, admin_group_id)
        fg == w.mm[k].is_from_group
        sg == w.mm[k].source_group_id
    IN
    [Posted(w, admin_group_id) EXCEPT
        !.mm[k].is_unread_topic = TRUE,
        !.mm[k].unread_topic_message_id = alert,
        !.kb = @ \cup {Button(alert, unread, "link", link, fg, sg),
                       Button(alert, unread, "read", admin_message, fg, sg),
                       Button(alert, unread, "ban", user, fg, sg)},
        !.ev.alerts = @ + 1]

\* The thread the deep link names: the caller's topic, else the thread row of
\* the source, else none (0).
LinkTopic(w, user, topic, is_from_group, source_group_id) ==
    LET k == FirstRow(w.fs, LAMBDA row :
                 /\ row.user_id = user
                 /\ IF is_from_group /\ source_group_id # 0
                    THEN row.from_group /\ row.source_group_id = source_group_id
                    ELSE ~row.from_group)
    IN  IF topic # 0 THEN topic ELSE IF k # 0 THEN w.fs[k].topic_id ELSE 0

\* The transport has answered a send_message of the alert into `thread`.
Tried(w, thread) ==
    [Used(w) EXCEPT !.ev.posts = Append(@, [thread |-> thread, report |-> Ask(w)])]

\* send_to_unread_topic: flag the cross-reference of the mirror as unread and
\* post an alert unless the user and source already have an unread row.
send_to_unread_topic(w, user, admin_message, topic, unread_topic) ==
    LET k == FirstRow(w.mm, LAMBDA row : row.group_chat_message_id = admin_message)
        row == w.mm[k]
        existing == FirstRow(w.mm, LAMBDA r :
                        IsUnreadOf(r, user, row.is_from_group, row.source_group_id))
        link == LinkTopic(w, user, topic, row.is_from_group, row.source_group_id)
        a == Ask(w)
        old == FirstRow(w.fs, LAMBDA r : r.topic_id = unread_topic /\ r.is_system_topic)
        w0 == Called(Tried(w, unread_topic), "send_message", TRUE)
        w1 == IF old = 0 THEN Missing(w0, unread_topic)
              ELSE [Missing(w0, unread_topic) EXCEPT !.fs = RemoveAt(@, old)]
        g == get_system_topic(w1, UNREAD_TOPIC_NAME)
        a2 == Ask(g.w)
    IN  IF unread_topic = 0 \/ k = 0 THEN w
        ELSE IF existing # 0 THEN [w EXCEPT !.mm[k].is_unread_topic = TRUE]
        ELSE IF a = "ok" THEN AlertPosted(w0, k, user, admin_message, link, unread_topic)
        ELSE IF a = "fail" THEN w0
        ELSE IF g.topic = 0 THEN g.w
        ELSE IF a2 = "ok"
             THEN AlertPosted(Called(Tried(g.w, g.topic), "send_message", FALSE),
                              k, user, admin_message, link, g.topic)
        ELSE Called(Tried(g.w, g.topic), "send_message", FALSE)

(***************************************************************************)
(* Relay of a private message to the admin forum                           *)
(***************************************************************************)
\* Notices the handlers send back to the sender.
NoticeBanned == "banned"
NoticeContactAdmin == "failed, contact the administrator"
NoticeRetryLater == "failed, retry later"
NoticeGroupFailed == "processing failed, retry later"
NoticeRecipientUnavailable == "the user cannot be reached: blocked or deactivated"
NoticeUnsupported == "unsupported message type, not forwarded"
NoticeToGroupFailed == "sending to the group failed"

Notice(w, text) == [w EXCEPT !.ev.notice = text]

\* The banned notice answers message `message`.
Banned(w, message) ==
    [Notice(w, NoticeBanned) EXCEPT
        !.rj = @ \cup {[chat_id |-> message.chat_id, message_id |-> message.message_id]}]

\* `if not topic_id:` of the entry points, always false in the variant.
NoThreadIgnored(topic_id) == FALSE
NoThread(topic_id) == topic_id = 0

\* A variant that leaves the row of a thread reported missing in place.
KeepThreadRow(w, topic_id) == w

\* db.delete of the formn_status row with that topic_id, if there is one.
DeleteThreadRow(w, topic_id) ==
    LET k == FirstRow(w.fs, LAMBDA row : row.topic_id = topic_id)
    IN  IF k = 0 THEN w ELSE [w EXCEPT !.fs = RemoveAt(@, k)]

\* send_copy put a copy of the message into thread topic_id.
CopiedToTopic(w, user, message, topic_id) ==
    LET id == NewId(w, admin_group_id) IN
    [Posted(w, admin_group_id) EXCEPT
        !.dl = @ \cup {Copy("u2a", user, message.chat_id, message.message_id,
                            message.reply_to, admin_group_id, id, topic_id, 0)},
        !.ev.relayed = Append(@, id)]

\* send_message_to_topic: copy the message into the thread.  On a stale
\* thread it deletes the row, asks create_or_get_user_topic for a private
\* thread and calls itself with the new thread; if no thread can be had it
\* re-raises the stale error.  r is "ok", or the error raised.
RECURSIVE send_message_to_topic(_, _, _, _, _)
send_message_to_topic(w, user, is_premium, message, topic_id) ==
    LET s == Ask(w)
        wu == Called(Used(w), "send_copy", TRUE)
        w1 == [DeleteThreadRow(Missing(wu, topic_id), topic_id) EXCEPT
                  !.ev.recreations = @ + 1]
        \* c is the thread created anew.
        Recreated(c) ==
            IF c.topic = 0 THEN [w |-> c.w, r |-> "stale", admin_message |-> 0]
            ELSE send_message_to_topic(c.w, user, is_premium, message, c.topic)
    IN  IF s = "ok"
        THEN [w |-> CopiedToTopic(wu, user, message, topic_id), r |-> "ok",
              admin_message |-> NewId(w, admin_group_id)]
        ELSE IF s = "fail" THEN [w |-> wu, r |-> "fail", admin_message |-> 0]
        ELSE Recreated(create_or_get_user_topic(w1, user, is_premium, FALSE, 0))

\* The tail of forward_message_to_admin: insert the cross-reference of a
\* private message and hand the mirror to the unread dedup.
RecordAndAlert(w, user, message, admin_message, topic, unread_topic) ==
    send_to_unread_topic(
        [w EXCEPT !.mm = Append(@, MapRow(user, message.message_id, admin_message, FALSE, 0))],
        user, admin_message, topic, unread_topic)

\* forward_message_to_admin: relay one private message.
\* t is the thread, u the unread thread, s the first send; on a stale
\* thread t2 is the thread created anew and s2 the second send.
forward_message_to_admin(w, user, is_premium, message) ==
    LET Sent(s, topic, unread_topic) ==
            RecordAndAlert(s.w, user, message, s.admin_message, topic, unread_topic)
        Resent(u, t2, s2) ==
            IF s2.r = "ok" THEN Sent(s2, t2.topic, u.topic)
            ELSE Notice(s2.w, NoticeRetryLater)
        Recreated(u, t2) ==
            IF NoThread(t2.topic) THEN Notice(t2.w, NoticeContactAdmin)
            ELSE Resent(u, t2, send_message_to_topic(t2.w, user, is_premium, message, t2.topic))
        Attempted(t, u, s) ==
            IF s.r = "ok" THEN Sent(s, t.topic, u.topic)
            ELSE IF s.r = "fail" THEN Notice(s.w, NoticeRetryLater)
            ELSE Recreated(u, create_or_get_user_topic([s.w EXCEPT !.ev.recreations = @ + 1],
                                                       user, is_premium, FALSE, 0))
        Listed(t, u) ==
            Attempted(t, u, send_message_to_topic(u.w, user, is_premium, message, t.topic))
        Found(t) ==
            IF NoThread(t.topic) THEN Notice(t.w, NoticeContactAdmin)
            ELSE Listed(t, get_system_topic(t.w, UNREAD_TOPIC_NAME))
    IN  Found(create_or_get_user_topic(w, user, is_premium, FALSE, 0))

(***************************************************************************)
(* Batch aggregator                                                        *)
(***************************************************************************)
\* MEDIA_GROUP_DELAY
MEDIA_GROUP_DELAY == 5

\* A media_group_messages row.
PartRow(media_group_id, message_id, chat_id, mention) ==
    [media_group_id |-> media_group_id, message_id |-> message_id, chat_id |-> chat_id,
     mention |-> mention, created_at |-> now]

\* The name of a job: prefix, batch id, one or two ids, suffix.
JobName(prefix, media_group_id, id1, id2, suffix) ==
    [prefix |-> prefix, media_group_id |-> media_group_id, id1 |-> id1, id2 |-> id2,
     suffix |-> suffix]

\* A run_once job: its name, the callback it runs, when it is due, its data.
Job(name, callback, user, topic_id, chat_id, media_group_id) ==
    [name |-> name, callback |-> callback, run_at |-> now + MEDIA_GROUP_DELAY,
     user_id |-> user, topic_id |-> topic_id, chat_id |-> chat_id,
     media_group_id |-> media_group_id]

\* job_queue.get_jobs_by_name(name) is non-empty; in the variant it is
\* always empty.
NoJob(w, name) == FALSE
HasJob(w, name) == \E j \in w.jq : j.name = name

\* forward_message_to_user: copy the operator's message into the private
\* chat of the thread's user, insert the cross-reference, mark the source
\* read.  send_message_to_user turns every error into None.
forward_message_to_user(w, message, row) ==
    LET user == row.user_id
        s == Ask(w)
        id == NewId(w, user)
        w1 == [Posted(Used(w), user) EXCEPT
                  !.dl = @ \cup {Copy("a2u", user, admin_group_id, message.message_id,
                                      message.reply_to, user, id, message.thread_id, 0)},
                  !.ev.relayed = Append(@, id),
                  !.mm = Append(@, MapRow(user, id, message.message_id, row.from_group,
                                          row.source_group_id))]
    IN  IF user = 0 THEN Notice(w, NoticeUnsupported)
        ELSE IF s # "ok" THEN Notice(Used(w), NoticeUnsupported)
        ELSE AutoMarkRead(w1, user, row.from_group, row.source_group_id)

\* The head of handle_media_group: the part is stored.
Stored(w, message) ==
    [w EXCEPT !.mg = Append(@, PartRow(message.media_group_id, message.message_id,
                                       message.chat_id, FALSE)),
              !.ev.stored = @ + 1]

\* handle_media_group without a job queue: the part is stored and handed
\* to forward_func as a single message.
StoredIfPart(w, message) == IF message.media_group_id # 0 THEN Stored(w, message) ELSE w

\* handle_media_group with a job queue: store the part, and start the timer
\* of its batch unless a job of that name is pending.  A part written by an
\* operator (forward_func = forward_message_to_user) needs the row of its
\* thread.
handle_media_group(w, user, message, forward_func) ==
    LET w1 == Stored(w, message)
        u2a == JobName("media_group", message.media_group_id, user, 0, "u2a")
        k == FirstRow(w.fs, LAMBDA row : row.topic_id = message.thread_id)
        a2u == JobName("media_group", message.media_group_id, message.thread_id, 0, "a2u")
    IN  IF forward_func = "forward_message_to_admin"
        THEN IF HasJob(w1, u2a) THEN w1
             ELSE [w1 EXCEPT !.jq = @ \cup {Job(u2a, "send_media_group_to_admin", user, 0,
                                                message.chat_id, message.media_group_id)},
                             !.ev.scheduled = @ + 1]
        ELSE IF k = 0 \/ HasJob(w1, a2u) THEN w1
             ELSE [w1 EXCEPT !.jq = @ \cup {Job(a2u, "send_media_group_to_user", w.fs[k].user_id,
                                                message.thread_id, message.chat_id,
                                                message.media_group_id)},
                             !.ev.scheduled = @ + 1]

(***************************************************************************)
(* Handler of private messages                                             *)
(***************************************************************************)
\* check_user_ban_status: a user without a row is not banned.
check_user_ban_status(w, user) == w.ut[user] = "banned"

\* forwarding_message_u2a: reject a banned user; mark the source read when
\* the message replies to a cross-referenced message; then batch or relay.
forwarding_message_u2a(w, user, is_premium, message) ==
    LET k == FirstRow(w.mm, LAMBDA row : /\ row.user_telegram_id = user
                                         /\ row.user_chat_message_id = message.reply_to)
        w1 == IF message.reply_to # 0 /\ k # 0
              THEN AutoMarkRead(w, user, w.mm[k].is_from_group, w.mm[k].source_group_id)
              ELSE w
    IN  IF check_user_ban_status(w, user) THEN Banned(w, message)
        ELSE IF message.media_group_id # 0 /\ w.sched
             THEN handle_media_group(w1, user, message, "forward_message_to_admin")
        ELSE forward_message_to_admin(StoredIfPart(w1, message), user, is_premium, message)

(***************************************************************************)
(* Handler of group mentions                                               *)
(***************************************************************************)
\* The tail of both relay branches of handle_group_mention: insert the
\* cross-reference, get the unread thread, hand the mirror to the dedup.
GroupRecordAndAlert(w, user, chat, user_msg, group_msg, admin_message, topic) ==
    LET w1 == [w EXCEPT !.mm = Append(@, MapRow(user, user_msg, group_msg, TRUE, chat))]
        u == get_system_topic(w1, UNREAD_TOPIC_NAME)
    IN  IF u.topic = 0 THEN u.w
        ELSE send_to_unread_topic(u.w, user, admin_message, topic, u.topic)

\* handle_group_mention: a message of `chat` written by `user`.
handle_group_mention(w, user, chat, is_premium, message) ==
    LET media == message.media_group_id # 0
        w0 == IF media
              THEN [w EXCEPT !.mg = Append(@, PartRow(message.media_group_id, message.message_id,
                                                      chat, message.mentioned)),
                             !.ev.stored = @ + 1]
              ELSE w
        has_mention == \E i \in DOMAIN w0.mg :
                           /\ w0.mg[i].media_group_id = message.media_group_id
                           /\ w0.mg[i].chat_id = chat
                           /\ w0.mg[i].mention
        w1 == [w0 EXCEPT !.ut[user] = IF @ = "none" THEN "active" ELSE @]
        name == JobName("group_media", message.media_group_id, user, chat, "")
        \* c is the thread created anew after thread t was reported missing.
        Recreated(t, c) ==
            IF NoThread(c.topic) THEN Notice(c.w, NoticeGroupFailed)
            ELSE IF Ask(c.w) = "ok"
                 THEN GroupRecordAndAlert(CopiedToTopic(Used(c.w), user, message, c.topic),
                                          user, chat, message.message_id,
                                          NewId(c.w, admin_group_id),
                                          NewId(c.w, admin_group_id), t.topic)
            ELSE Notice(Used(c.w), NoticeGroupFailed)
        \* t is the thread of the user and the group.
        Found(t) ==
            LET s == Ask(t.w)
                admin_message == NewId(t.w, admin_group_id)
            IN  IF NoThread(t.topic) THEN Notice(t.w, NoticeGroupFailed)
                ELSE IF media /\ t.w.sched
                     THEN IF HasJob(t.w, name) THEN t.w
                          ELSE [t.w EXCEPT
                                   !.jq = @ \cup {Job(name, "send_group_media_to_admin", user,
                                                      t.topic, chat, message.media_group_id)},
                                   !.ev.scheduled = @ + 1]
                ELSE IF s = "ok"
                     THEN GroupRecordAndAlert(CopiedToTopic(Used(t.w), user, message, t.topic),
                                              user, chat, admin_message, message.message_id,
                                              admin_message, t.topic)
                ELSE IF s = "fail" THEN Notice(Used(t.w), NoticeGroupFailed)
                ELSE Recreated(t, create_or_get_user_topic(
                                      [DeleteThreadRow(Missing(Used(t.w), t.topic), t.topic) EXCEPT
                                          !.ev.recreations = @ + 1],
                                      user, is_premium, TRUE, chat))
    IN  IF ~message.mentioned /\ ~(media /\ has_mention) THEN w0
        ELSE IF check_user_ban_status(w0, user) THEN Banned(w0, message)
        ELSE Found(create_or_get_user_topic(w1, user, is_premium, TRUE, chat))

(***************************************************************************)
(* Handler of operator messages                                            *)
(***************************************************************************)
\* forward_message_to_group: send the operator's message to the source group
\* of the thread, as a reply to the message the cross-reference names.
forward_message_to_group(w, operator, message, row) ==
    LET user == row.user_id
        gid == row.source_group_id
        name == JobName("admin_media", message.media_group_id, operator, gid, "")
        w0 == [w EXCEPT !.mg = Append(@, PartRow(message.media_group_id, message.message_id,
                                                 message.chat_id, FALSE)),
                        !.ev.stored = @ + 1]
        wp == IF message.media_group_id # 0 THEN w0 ELSE w
        k == FirstRow(w.mm, LAMBDA r : /\ r.group_chat_message_id = message.reply_to
                                       /\ r.user_telegram_id = user)
        original_msg_id == IF message.reply_to # 0 /\ k # 0
                           THEN w.mm[k].user_chat_message_id ELSE 0
        s == Ask(wp)
        id == NewId(wp, gid)
        w1 == [Posted(Used(wp), gid) EXCEPT
                  !.dl = @ \cup {Copy("a2g", user, admin_group_id, message.message_id,
                                      message.reply_to, gid, id, message.thread_id,
                                      original_msg_id)},
                  !.ev.relayed = Append(@, id),
                  !.mm = Append(@, MapRow(user, id, message.message_id, TRUE, gid))]
    IN  IF message.media_group_id # 0 /\ w.sched
        THEN IF HasJob(w0, name) THEN w0
             ELSE [w0 EXCEPT !.jq = @ \cup {Job(name, "send_admin_media_to_group", operator,
                                                row.topic_id, message.chat_id,
                                                message.media_group_id)},
                             !.ev.scheduled = @ + 1]
        ELSE IF s # "ok" THEN Notice(Used(wp), NoticeToGroupFailed)
        ELSE MarkRows(w1, AllRows(w1.mm, LAMBDA r : IsUnreadOf(r, user, TRUE, gid)), operator)

\* The tail of forwarding_message_a2u, which a part handed over by
\* handle_media_group does not reach: the source is marked read once more.
AlsoMarkedRead(single, w, user, is_from_group, source_group_id) ==
    IF single THEN AutoMarkRead(w, user, is_from_group, source_group_id) ELSE w

\* forwarding_message_a2u: a message an operator writes in a thread of the
\* admin forum.
forwarding_message_a2u(w, operator, message) ==
    LET k == FirstRow(w.fs, LAMBDA row : row.topic_id = message.thread_id)
        row == w.fs[k]
    IN  IF k = 0 THEN w
        ELSE IF row.from_group /\ row.source_group_id # 0
             THEN forward_message_to_group(w, operator, message, row)
        ELSE IF message.media_group_id # 0 /\ w.sched
             THEN handle_media_group(w, operator, message, "forward_message_to_user")
        ELSE AlsoMarkedRead(message.media_group_id = 0,
                            forward_message_to_user(StoredIfPart(w, message), message, row),
                            row.user_id, row.from_group, row.source_group_id)

(***************************************************************************)
(* Batch relay: the callbacks of the timers                                *)
(***************************************************************************)
\* list.sort(key=message_id), as an insertion sort.
RECURSIVE Inserted(_, _)
Inserted(x, s) ==
    IF s = <<>> THEN <<x>>
    ELSE IF x < Head(s) THEN <<x>> \o s
    ELSE <<Head(s)>> \o Inserted(x, Tail(s))

RECURSIVE Sorted(_)
Sorted(s) == IF s = <<>> THEN <<>> ELSE Inserted(s[Len(s)], Sorted(SubSeq(s, 1, Len(s) - 1)))

\* The message ids of the stored parts of a batch in one chat, sorted.
PartIds(w, media_group_id, chat_id) ==
    LET idxs == AllRows(w.mg, LAMBDA p : p.media_group_id = media_group_id /\ p.chat_id = chat_id)
    IN  Sorted([i \in 1..Len(idxs) |-> w.mg[idxs[i]].message_id])

\* The messages among `ids` that copy_messages finds in from_chat: it skips
\* the ones it cannot find and returns the ids of the copies it made.
Kept(w, from_chat, ids) ==
    SelectSeq(ids, LAMBDA id : [chat_id |-> from_chat, message_id |-> id] \notin w.gone)

\* One call of send_copies / copy_messages was asked to put the messages
\* `ids` of from_chat into to_chat, where the copies take consecutive ids.
CopiedBatch(w, dir, user, from_chat, ids, to_chat, thread) ==
    LET base == NewId(w, to_chat)
        kept == Kept(w, from_chat, ids)
    IN  [w EXCEPT !.ids[to_chat] = @ + Len(kept),
                  !.dl = @ \cup {Copy(dir, user, from_chat, kept[i], 0, to_chat, base + i - 1,
                                      thread, 0) : i \in 1..Len(kept)},
                  !.ev.relayed = @ \o [i \in 1..Len(kept) |-> base + i - 1],
                  !.ev.batch = ids,
                  !.ev.calls = @ + 1,
                  !.ev.transport = @ \cup {[method |-> "send_copies", retried |-> FALSE]}]

\* The cross-references of a batch: the i-th id returned is paired with the
\* i-th part, for as many ids as were returned.
BatchRows(user, user_ids, group_ids, is_from_group, source_group_id) ==
    [i \in 1..Min(Len(user_ids), Len(group_ids)) |->
        MapRow(user, user_ids[i], group_ids[i], is_from_group, source_group_id)]

\* The ids base, base + 1, ... of n consecutive messages.
Run(base, n) == [i \in 1..n |-> base + i - 1]

\* send_media_group_to_admin: relay the stored parts of a private batch.
send_media_group_to_admin(w, job, is_premium) ==
    LET user == job.user_id
        ids == PartIds(w, job.media_group_id, user)
        n == Len(Kept(w, user, ids))
        \* t is the thread of the user, u the unread thread.
        Listed(t, u) ==
            LET s == Ask(u.w)
                base == NewId(u.w, admin_group_id)
                w1 == CopiedBatch(Used(u.w), "u2a", user, user, ids, admin_group_id, t.topic)
                w2 == [w1 EXCEPT !.mm = @ \o BatchRows(user, ids, Run(base, n), FALSE, 0)]
            IN  IF s # "ok" THEN Used(u.w)
                ELSE IF n = 0 THEN w1
                ELSE send_to_unread_topic(w2, user, base, t.topic, u.topic)
        Found(t) ==
            IF t.topic = 0 THEN t.w
            ELSE Listed(t, get_system_topic(t.w, UNREAD_TOPIC_NAME))
    IN  IF ids = <<>> THEN w
        ELSE Found(create_or_get_user_topic(w, user, is_premium, FALSE, 0))

\* The tail of both branches of send_group_media_to_admin.
GroupBatchRelayed(w, user, chat, ids, topic) ==
    LET base == NewId(w, admin_group_id)
        w1 == CopiedBatch(w, "u2a", user, chat, ids, admin_group_id, topic)
        n == Len(Kept(w, chat, ids))
        w2 == [w1 EXCEPT !.mm = @ \o BatchRows(user, ids, Run(base, n), TRUE, chat)]
        \* u is the unread thread.
        Listed(u) ==
            IF u.topic = 0 \/ n = 0 THEN u.w
            ELSE send_to_unread_topic(u.w, user, base, topic, u.topic)
    IN  Listed(get_system_topic(w2, UNREAD_TOPIC_NAME))

\* send_group_media_to_admin: relay the stored parts of a group batch into
\* the thread found when the timer was started; on a stale thread delete
\* its row, get a new thread and send once more.
send_group_media_to_admin(w, job, is_premium) ==
    LET user == job.user_id
        chat == job.chat_id
        ids == PartIds(w, job.media_group_id, chat)
        s == Ask(w)
        w1 == [DeleteThreadRow(Missing(Used(w), job.topic_id), job.topic_id) EXCEPT
                  !.ev.recreations = @ + 1]
        \* c is the thread created anew.
        Recreated(c) ==
            IF c.topic = 0 THEN c.w
            ELSE IF Ask(c.w) = "ok" THEN GroupBatchRelayed(Used(c.w), user, chat, ids, c.topic)
            ELSE Used(c.w)
    IN  IF ids = <<>> THEN w
        ELSE IF s = "ok" THEN GroupBatchRelayed(Used(w), user, chat, ids, job.topic_id)
        ELSE IF s = "fail" THEN Used(w)
        ELSE Recreated(create_or_get_user_topic(w1, user, is_premium, TRUE, chat))

\* The relay of an operator's batch to a source group: the user is
\* mentioned in a message of its own, the parts are copied, the
\* cross-references inserted, and the group source is marked read.  If
\* sending fails, the group and the thread are told so.
MediaToGroup(w, user, gid, ids, thread, handler) ==
    LET s == Ask(w)
        w0 == Posted(Used(w), gid)
        base == NewId(w0, gid)
        w1 == CopiedBatch(w0, "a2g", user, admin_group_id, ids, gid, thread)
        n == Len(Kept(w, admin_group_id, ids))
        w2 == [w1 EXCEPT !.mm = @ \o BatchRows(user, Run(base, n), ids, TRUE, gid)]
    IN  IF s # "ok"
        THEN Notice(Posted(Posted(Used(w), gid), admin_group_id), NoticeToGroupFailed)
        ELSE MarkRows(w2, AllRows(w2.mm, LAMBDA r : IsUnreadOf(r, user, TRUE, gid)), handler)

\* send_topic_media_to_group
send_topic_media_to_group(w, media_group_id, topic_id, row) ==
    LET ids == PartIds(w, media_group_id, admin_group_id)
    IN  IF row.source_group_id = 0 \/ ids = <<>> THEN w
        ELSE MediaToGroup(w, row.user_id, row.source_group_id, ids, topic_id, KeepHandler)

\* send_media_group_to_user: relay the stored parts of an operator's batch.
send_media_group_to_user(w, job) ==
    LET user == job.user_id
        ids == PartIds(w, job.media_group_id, admin_group_id)
        k == FirstRow(w.fs, LAMBDA row : row.topic_id = job.topic_id)
        row == w.fs[k]
        s == Ask(w)
        base == NewId(w, user)
        w1 == CopiedBatch(Used(w), "a2u", user, admin_group_id, ids, user, job.topic_id)
        n == Len(Kept(w, admin_group_id, ids))
        w2 == [w1 EXCEPT !.mm = @ \o BatchRows(user, Run(base, n), ids, row.from_group,
                                                row.source_group_id)]
    IN  IF ids = <<>> \/ k = 0 THEN w
        ELSE IF row.from_group /\ row.source_group_id # 0
             THEN send_topic_media_to_group(w, job.media_group_id, job.topic_id, row)
        ELSE IF user = 0 THEN w
        ELSE IF s # "ok" THEN Notice(Posted(Used(w), user), NoticeUnsupported)
        ELSE AutoMarkRead(w2, user, row.from_group, row.source_group_id)

\* send_admin_media_to_group: relay the stored parts of an operator's batch
\* written in a group thread.
send_admin_media_to_group(w, job) ==
    LET ids == PartIds(w, job.media_group_id, job.chat_id)
        k == FirstRow(w.fs, LAMBDA row : row.topic_id = job.topic_id)
        row == w.fs[k]
    IN  IF ids = <<>> \/ k = 0 THEN w
        ELSE IF row.source_group_id = 0 THEN w
        ELSE MediaToGroup(w, row.user_id, row.source_group_id, ids, job.topic_id, job.user_id)

\* The callback a job runs.
RunJob(w, job, is_premium) ==
    CASE job.callback = "send_media_group_to_admin" -> send_media_group_to_admin(w, job, is_premium)
      [] job.callback = "send_group_media_to_admin" -> send_group_media_to_admin(w, job, is_premium)
      [] job.callback = "send_media_group_to_user" -> send_media_group_to_user(w, job)
      [] OTHER -> send_admin_media_to_group(w, job)

(***************************************************************************)
(* Callback queries                                                        *)
(***************************************************************************)
\* query.edit_message_reply_markup: the buttons of the pressed message are
\* replaced; it fails, and is ignored, if the message has been deleted.
Replaced(w, b, kinds) ==
    IF ~\E x \in w.kb : x.message_id = b.message_id THEN w
    ELSE [w EXCEPT !.kb = {x \in @ : x.message_id # b.message_id} \cup
                          {Button(b.message_id, b.thread_id, kind, b.arg, b.from_group,
                                  b.source_group_id) : kind \in kinds}]

\* process_callback_read_all on button b = read_all_<user>.
process_callback_read_all(w, operator, b) ==
    LET user == b.arg
        k == FirstRow(w.fs, LAMBDA row : row.topic_id = b.thread_id)
        unread_messages ==
            IF k = 0
            THEN AllRows(w.mm, LAMBDA r : r.user_telegram_id = user /\ r.is_unread_topic)
            ELSE IF w.fs[k].from_group /\ w.fs[k].source_group_id # 0
                 THEN AllRows(w.mm, LAMBDA r : IsUnreadOf(r, user, TRUE, w.fs[k].source_group_id))
            ELSE AllRows(w.mm, LAMBDA r : IsUnreadOf(r, user, FALSE, 0))
    IN  IF unread_messages = <<>> THEN w
        ELSE Replaced(MarkRows(w, unread_messages, operator), b, {"ban"})

\* process_callback_ban on button b = ban_<user>: toggle is_active, creating
\* the user row as banned if there is none.
process_callback_ban(w, operator, b) ==
    Replaced([w EXCEPT !.ut[b.arg] = IF @ = "banned" THEN "active" ELSE "banned"],
             b, {"read_all", "ban"})

\* process_callback_read on button b = read_<mirror id>.
process_callback_read(w, operator, b) ==
    LET k == FirstRow(w.mm, LAMBDA r : r.group_chat_message_id = b.arg)
        row == w.mm[k]
        group == row.is_from_group /\ row.source_group_id # 0
    IN  IF k = 0 THEN w
        ELSE MarkRows(w, AllRows(w.mm, LAMBDA r :
                             IsUnreadOf(r, row.user_telegram_id, group, row.source_group_id)),
                      operator)

\* process_callback_query: dispatch on the callback data.
process_callback_query(w, operator, b) ==
    CASE b.kind = "read_all" -> process_callback_read_all(w, operator, b)
      [] b.kind = "read" -> process_callback_read(w, operator, b)
      [] b.kind = "ban" -> process_callback_ban(w, operator, b)
      [] OTHER -> w

(***************************************************************************)
(* Updates                                                                 *)
(***************************************************************************)
\* Messages a private chat or a source group may receive from its user, and
\* messages the operators may write in the admin forum.
MaxInbound == 2
MaxOperator == 1

\* Callback buttons the operators may press, and changes of a user's
\* Premium status.
MaxCallbacks == 2
MaxPremiumChanges == 1

\* media_group_id of a message outside any album, and of the albums.
NoAlbum == {0}
Albums == {1}

\* Latest time on the clock.
MaxTime == 5

\* An update: a message of chat `chat`, which takes the chat's next id.
Message(chat, thread_id, reply_to, media_group_id, mentioned) ==
    [chat_id |-> chat, message_id |-> next_id[chat], thread_id |-> thread_id,
     reply_to |-> reply_to, media_group_id |-> media_group_id, mentioned |-> mentioned]

\* The transport injects the failures of orc into a handler run.
Injects(orc) == budget' = [budget EXCEPT !.faults = @ - Faults(orc)]

\* The same, the run being for one of the counted kinds of update.
InjectsInto(orc, kind) ==
    /\ budget[kind] > 0
    /\ budget' = [budget EXCEPT !.faults = @ - Faults(orc), ![kind] = @ - 1]

\* The world in which handler `op` starts for `user` and a source.
Started(orc, op, user, from_group, source_group_id) ==
    [World(orc) EXCEPT
        !.ev.op = op, !.ev.user = user, !.ev.from_group = from_group,
        !.ev.source_group_id = source_group_id]

\* The same, the update being a new message of `chat`.
Arrived(orc, op, chat, user, from_group, source_group_id) ==
    Posted(Started(orc, op, user, from_group, source_group_id), chat)

\* Ids of the messages shown in thread t of the admin forum.
ThreadMessages(t) ==
    {c.to_id : c \in {d \in delivered : d.to_chat = admin_group_id /\ d.thread = t}}
    \cup {c.from_id : c \in {d \in delivered : d.from_chat = admin_group_id /\ d.thread = t}}

\* A user writes to the bot in the private chat.
UserMessage(media_groups) ==
    \E u \in Users, orc \in Oracles(MaxCalls), g \in media_groups :
    \E reply_to \in 0..(next_id[u] - 1) :
        /\ next_id[u] <= budget.inbound
        /\ Injects(orc)
        /\ Commit(forwarding_message_u2a(
               Arrived(orc, "forwarding_message_u2a", u, u, FALSE, 0),
               u, premium[u], Message(u, 0, reply_to, g, FALSE)))

\* A user writes in a source group, mentioning the bot or continuing an album.
GroupMessage(media_groups) ==
    \E u \in Users, c \in Groups, orc \in Oracles(MaxCalls), g \in media_groups :
    \E mentioned \in (IF g = 0 THEN {TRUE} ELSE BOOLEAN) :
        /\ next_id[c] <= budget.inbound
        /\ Injects(orc)
        /\ Commit(handle_group_mention(
               Arrived(orc, "handle_group_mention", c, u, TRUE, c),
               u, c, premium[u], Message(c, 0, 0, g, mentioned)))

\* What the first transport call of a handler run reports when
\* retry_with_backoff ends it with an error of kind `error`.
ErrorOracles(error) ==
    IF error = "none" THEN Oracles(3)
    ELSE IF budget.faults > 0 THEN {<<Report(error)>>} ELSE {}

\* An operator writes in a thread of the admin forum; `errors` are the
\* kinds of error the delivery of the message may end with.
OperatorDelivery(media_groups, errors) ==
    \E o \in Operators, k \in DOMAIN formn_status, g \in media_groups, error \in errors :
    \E reply_to \in {0} \cup ThreadMessages(formn_status[k].topic_id),
       orc \in ErrorOracles(error) :
        /\ InjectsInto(orc, "operator")
        /\ Commit(forwarding_message_a2u(
               [Arrived(orc, "forwarding_message_a2u", admin_group_id, formn_status[k].user_id,
                        formn_status[k].from_group, formn_status[k].source_group_id)
                    EXCEPT !.ev.error = error],
               o, Message(admin_group_id, formn_status[k].topic_id, reply_to, g, FALSE)))

OperatorMessage(media_groups) == OperatorDelivery(media_groups, {"none"})

\* An operator presses a callback button.
CallbackQuery ==
    \E o \in Operators, b \in keyboards, orc \in Oracles(2) :
        /\ b.kind # "link"
        /\ InjectsInto(orc, "callback")
        /\ Commit(process_callback_query(
               Started(orc, b.kind, b.arg, b.from_group, b.source_group_id), o, b))

\* A timer is due: its job leaves the queue and runs.
JobRuns ==
    \E job \in job_queue, orc \in Oracles(MaxCalls) :
        /\ job.run_at <= now
        /\ Injects(orc)
        /\ Commit(RunJob([Started(orc, job.callback, job.user_id, FALSE, 0)
                             EXCEPT !.jq = @ \ {job}], job,
                         IF job.user_id \in Users THEN premium[job.user_id] ELSE FALSE))

\* A second passes; a job that is due runs before the next second.  The
\* clock is read only to set and to fire timers, so it is followed only
\* while one is pending.
Passes(latest) ==
    /\ now < latest
    /\ job_queue # {}
    /\ \A job \in job_queue : job.run_at > now
    /\ now' = now + 1
    /\ UNCHANGED <<formn_status, message_map, media_group_messages, user_table,
                   message_thread_id, job_queue, keyboards, next_id, premium, budget,
                   delivered, rejected, deleted, has_job_queue, ev, tasks, retryVars>>

Tick == Passes(MaxTime)

\* Latest time on the clock when a second timer of an album is followed.
MaxLateTime == 10

LateTick == Passes(MaxLateTime)

\* A user gains or loses Telegram Premium.
PremiumChanges ==
    \E u \in Users :
        /\ InjectsInto(<<>>, "premium")
        /\ premium' = [premium EXCEPT ![u] = ~@]
        /\ UNCHANGED <<formn_status, message_map, media_group_messages, user_table,
                       message_thread_id, job_queue, keyboards, next_id, now, delivered,
                       rejected, deleted, has_job_queue, ev, tasks, retryVars>>

\* The relay of single messages, in both directions and for both kinds of
\* source, with the operators' buttons.
Next ==
    \/ UserMessage(NoAlbum)
    \/ GroupMessage(NoAlbum)
    \/ OperatorMessage(NoAlbum)
    \/ CallbackQuery

(***************************************************************************)
(* create_or_get_user_topic run by tasks that interleave at its awaits     *)
(***************************************************************************)
\* Updates are handled one at a time, the callback of each timer runs as a
\* task of its own: the tasks that may be in the function at once.
MaxTasks == 3
TaskIds == 1..MaxTasks

\* Failures of the transport while the tasks run.
MaxTopicFaults == 1

Idle == [pc |-> "idle", user |-> 0, from_group |-> FALSE, source_group_id |-> 0, topic |-> 0]

TopicInit == tasks = [t \in TaskIds |-> Idle]

\* What create_forum_topic or send_message may report to a task.
TaskReports == IF budget.faults > 0 THEN {"ok", "fail"} ELSE {"ok"}

\* A task calls create_or_get_user_topic for a user and a source, and waits
\* for get_chat.
TaskCalls(t) ==
    \E u \in Users, g \in {0} \cup Groups :
        /\ tasks[t].pc = "idle"
        /\ tasks' = [tasks EXCEPT ![t] = [pc |-> "get_chat", user |-> u, from_group |-> g # 0,
                                          source_group_id |-> g, topic |-> 0]]
        /\ UNCHANGED <<relayVars, retryVars>>

\* get_chat has answered: the task looks the thread up and returns it, or,
\* finding none, asks for a new one and waits for create_forum_topic.  The
\* label of a thread found is up to date, no user being Premium here.
TaskLooksUp(t) ==
    LET a == tasks[t]
        k == FirstRow(formn_status,
                      LAMBDA row : IsThreadOf(row, a.user, a.from_group, a.source_group_id))
    IN  /\ a.pc = "get_chat"
        /\ tasks' = [tasks EXCEPT ![t] =
                        IF k = 0 THEN [a EXCEPT !.pc = "create_forum_topic"]
                        ELSE [a EXCEPT !.pc = "returned", !.topic = formn_status[k].topic_id]]
        /\ UNCHANGED <<relayVars, retryVars>>

\* create_forum_topic has answered: the task inserts and commits the row of
\* the new thread and waits for the intro to be sent; on an error it
\* returns None.
TaskInserts(t) ==
    LET a == tasks[t]
        tid == next_id[admin_group_id]
    IN  \E r \in TaskReports :
            /\ a.pc = "create_forum_topic"
            /\ IF r = "ok"
               THEN /\ formn_status' = Append(formn_status,
                                              ThreadRow(a.user, tid,
                                                        NewTopicName(a.from_group, premium[a.user]),
                                                        a.from_group, a.source_group_id))
                    /\ next_id' = [next_id EXCEPT ![admin_group_id] = @ + 1]
                    /\ tasks' = [tasks EXCEPT ![t] = [a EXCEPT !.pc = "send_message", !.topic = tid]]
                    /\ UNCHANGED budget
               ELSE /\ tasks' = [tasks EXCEPT ![t] = [a EXCEPT !.pc = "returned"]]
                    /\ budget' = [budget EXCEPT !.faults = @ - 1]
                    /\ UNCHANGED <<formn_status, next_id>>
            /\ UNCHANGED <<message_map, media_group_messages, user_table, message_thread_id,
                           job_queue, keyboards, now, premium, delivered, rejected, deleted,
                           has_job_queue, ev, retryVars>>

\* send_message has answered: the intro and its buttons are in the thread
\* and the task returns the thread; on an error it returns None.
TaskReturns(t) ==
    LET a == tasks[t]
        intro == next_id[admin_group_id]
    IN  \E r \in TaskReports :
            /\ a.pc = "send_message"
            /\ IF r = "ok"
               THEN /\ keyboards' = keyboards \cup
                           {Button(intro, a.topic, "read_all", a.user, a.from_group, a.source_group_id),
                            Button(intro, a.topic, "ban", a.user, a.from_group, a.source_group_id)}
                    /\ next_id' = [next_id EXCEPT ![admin_group_id] = @ + 1]
                    /\ tasks' = [tasks EXCEPT ![t] = [a EXCEPT !.pc = "returned"]]
                    /\ UNCHANGED budget
               ELSE /\ tasks' = [tasks EXCEPT ![t] = [a EXCEPT !.pc = "returned", !.topic = 0]]
                    /\ budget' = [budget EXCEPT !.faults = @ - 1]
                    /\ UNCHANGED <<keyboards, next_id>>
            /\ UNCHANGED <<formn_status, message_map, media_group_messages, user_table,
                           message_thread_id, job_queue, now, premium, delivered, rejected,
                           deleted, has_job_queue, ev, retryVars>>

TopicNext ==
    \/ \E t \in TaskIds : TaskCalls(t)
    \/ \E t \in TaskIds : TaskLooksUp(t)
    \/ \E t \in TaskIds : TaskInserts(t)
    \/ \E t \in TaskIds : TaskReturns(t)

(***************************************************************************)
(* The private-only relay of bot.py                                        *)
(***************************************************************************)
\* bot.py keeps the thread of a user in user.message_thread_id and
\* looks the status of a thread up by formn_status.message_thread_id.  The
\* class in models/formn_status.py declares no such column; the table is
\* taken to have it, as the queries of bot.py suppose.
\* Notices of bot.py: to the user of a closed thread, to the operator of a
\* closed thread, to the user when the thread is closed and reopened, and
\* to the sender when a copy fails.
NoticeClosed == "the conversation has been closed"
NoticeReopenFirst == "the conversation has ended, open it to reach the user"
NoticeConversationEnded == "the conversation has ended, messages will be ignored"
NoticeConversationReopened == "the conversation has been reopened"
NoticeSendFailed == "sending failed"

\* What a message in a thread of the admin forum may be: a plain message
\* or a service message of the thread's life cycle.
Signals == {"none", "created", "closed", "reopened"}

\* A formn_status row as bot.py writes it.
StatusRow(thread, status) == [message_thread_id |-> thread, status |-> status]

\* A message_map row as bot.py writes it.
BotMapRow(user, user_msg, group_msg) ==
    [user_chat_message_id |-> user_msg, group_chat_message_id |-> group_msg,
     user_telegram_id |-> user]

\* f.status == "closed", never true in the variant.
IsClosedNever(f) == FALSE
IsClosed(f) == f.status = "closed"

\* update_user_db: the row of the user, created on first sight.
update_user_db(w, user) == [w EXCEPT !.ut[user] = IF @ = "none" THEN "active" ELSE @]

\* The part of forwarding_message_u2a that gives a user without a thread
\* one: create_forum_topic, the intro, the contact card, the commit.  An
\* error of the transport is raised out of the handler; the thread id set
\* on the user's row stays in the shared session.
EnsureThread(w, user) ==
    LET c == Ask(w)
        tid == NewId(w, admin_group_id)
        w1 == [Posted(Used(w), admin_group_id) EXCEPT !.th[user] = tid]
        i == Ask(w1)
        w2 == Posted(Used(w1), admin_group_id)
        card == Ask(w2)
        w3 == Posted(Used(w2), admin_group_id)
    IN  IF w.th[user] # 0 THEN [w |-> w, thread |-> w.th[user], raised |-> FALSE]
        ELSE IF c # "ok" THEN [w |-> Used(w), thread |-> 0, raised |-> TRUE]
        ELSE IF i # "ok" THEN [w |-> Used(w1), thread |-> tid, raised |-> TRUE]
        ELSE IF card # "ok" THEN [w |-> Used(w2), thread |-> tid, raised |-> TRUE]
        ELSE [w |-> w3, thread |-> tid, raised |-> FALSE]

\* forwarding_message_u2a of bot.py, for a message outside any album: a
\* closed thread rejects the message; otherwise the message is copied into
\* the thread of the user, as a reply if it replies to a cross-referenced
\* message, and the cross-reference is inserted.  The branch for a
\* BadRequest reads a configuration attribute that does not exist and so
\* raises in its turn.
bot_forwarding_message_u2a(w, user, message) ==
    LET w0 == update_user_db(w, user)
        k == FirstRow(w0.fs, LAMBDA f : f.message_thread_id = w0.th[user])
        e == EnsureThread(w0, user)
        r == FirstRow(e.w.mm, LAMBDA m : m.user_chat_message_id = message.reply_to)
        reply_to == IF message.reply_to # 0 /\ r # 0 THEN e.w.mm[r].group_chat_message_id ELSE 0
        s == Ask(e.w)
        id == NewId(e.w, admin_group_id)
    IN  IF k # 0 /\ IsClosed(w0.fs[k]) THEN Notice(w0, NoticeClosed)
        ELSE IF e.raised THEN e.w
        ELSE IF s = "ok"
             THEN [Posted(Used(e.w), admin_group_id) EXCEPT
                      !.dl = @ \cup {Copy("u2a", user, user, message.message_id, message.reply_to,
                                          admin_group_id, id, e.thread, reply_to)},
                      !.ev.relayed = Append(@, id),
                      !.mm = Append(@, BotMapRow(user, message.message_id, id))]
        ELSE IF s = "stale" THEN Used(e.w)
        ELSE Notice(Used(e.w), NoticeSendFailed)

\* The life-cycle branch of forwarding_message_a2u: the user is told, then
\* the status of the thread's row, if it has one, is set.
StatusSet(w, k, status, text) ==
    IF Ask(w) # "ok" THEN Used(w)
    ELSE Notice([Used(w) EXCEPT !.fs = IF k = 0 THEN @ ELSE [@ EXCEPT ![k].status = status]],
                text)

\* forwarding_message_a2u of bot.py, for a message outside any album.
bot_forwarding_message_a2u(w, operator, message, signal) ==
    LET thread == message.thread_id
        user == IF \E u \in Users : w.th[u] = thread
                THEN CHOOSE u \in Users : w.th[u] = thread ELSE 0
        k == FirstRow(w.fs, LAMBDA f : f.message_thread_id = thread)
        r == FirstRow(w.mm, LAMBDA m : m.group_chat_message_id = message.reply_to)
        reply_to == IF message.reply_to # 0 /\ r # 0 THEN w.mm[r].user_chat_message_id ELSE 0
        s == Ask(w)
        id == NewId(w, user)
    IN  IF thread = 0 \/ user = 0 THEN w
        ELSE IF signal = "created" THEN [w EXCEPT !.fs = Append(@, StatusRow(thread, "opened"))]
        ELSE IF signal = "closed" THEN StatusSet(w, k, "closed", NoticeConversationEnded)
        ELSE IF signal = "reopened" THEN StatusSet(w, k, "opened", NoticeConversationReopened)
        ELSE IF k # 0 /\ IsClosed(w.fs[k]) THEN Notice(w, NoticeReopenFirst)
        ELSE IF s = "ok"
             THEN [Posted(Used(w), user) EXCEPT
                      !.dl = @ \cup {Copy("a2u", user, admin_group_id, message.message_id,
                                          message.reply_to, user, id, thread, reply_to)},
                      !.ev.relayed = Append(@, id),
                      !.mm = Append(@, BotMapRow(user, id, message.message_id))]
        ELSE Notice(Used(w), NoticeSendFailed)

\* What may happen while bot.py relays.
MaxBotFaults == 1
MaxBotInbound == 2
MaxBotOperator == 3

\* A user writes to the bot in the private chat.
BotUserMessage ==
    \E u \in Users, orc \in Oracles(4) :
    \E reply_to \in 0..(next_id[u] - 1) :
        /\ next_id[u] <= budget.inbound
        /\ Injects(orc)
        /\ Commit(bot_forwarding_message_u2a(
               Arrived(orc, "bot_forwarding_message_u2a", u, u, FALSE, 0),
               u, Message(u, 0, reply_to, 0, FALSE)))

\* An operator writes in the thread of a user, or the thread's life cycle
\* puts a service message there; a thread reports its creation once.
BotOperatorMessage ==
    \E o \in Operators, u \in Users, signal \in Signals, orc \in Oracles(1) :
    \E reply_to \in {0} \cup ThreadMessages(message_thread_id[u]) :
        /\ message_thread_id[u] # 0
        /\ reply_to # 0 => signal = "none"
        /\ signal = "created" =>
               \A i \in DOMAIN formn_status :
                   formn_status[i].message_thread_id # message_thread_id[u]
        /\ InjectsInto(orc, "operator")
        /\ Commit(bot_forwarding_message_a2u(
               [Arrived(orc, "bot_forwarding_message_a2u", admin_group_id, u, FALSE, 0)
                    EXCEPT !.ev.signal = signal],
               o, Message(admin_group_id, message_thread_id[u], reply_to, 0, FALSE), signal))

BotNext ==
    \/ BotUserMessage
    \/ BotOperatorMessage

\* Private messages of a user whose Premium status changes, over a transport
\* that fails more often.
StaleNext ==
    \/ UserMessage(NoAlbum)
    \/ PremiumChanges

\* Albums: the parts arrive, the timers run, the operators press buttons.
BatchNext ==
    \/ UserMessage(Albums)
    \/ GroupMessage(Albums)
    \/ CallbackQuery
    \/ JobRuns
    \/ Tick

(***************************************************************************)
(* Specifications                                                          *)
(***************************************************************************)
vars == <<retryVars, relayVars, tasks>>

\* No call of retry_with_backoff is being followed.
RetryParked ==
    /\ max_retries = 0
    /\ initial_wait = 1
    /\ wait_time = 1
    /\ retries = 0
    /\ attempts = <<>>
    /\ slept = <<>>
    /\ rresult = [kind |-> "ok", recreation |-> FALSE]

Init ==
    /\ RelayInit(Budget(MaxFaults, MaxInbound, MaxOperator, MaxCallbacks, 0))
    /\ RetryParked
    /\ TopicInit

Spec == Init /\ [][Next]_vars

\* Failures the transport may inject while private messages are relayed.
MaxStaleFaults == 2

StaleInit ==
    /\ RelayInit(Budget(MaxStaleFaults, MaxInbound, 0, 0, MaxPremiumChanges))
    /\ RetryParked
    /\ TopicInit

SpecStale == StaleInit /\ [][StaleNext]_vars

\* What may happen while albums are relayed.
MaxBatchFaults == 0
MaxBatchCallbacks == 1

BatchInit ==
    /\ RelayInit(Budget(MaxBatchFaults, MaxInbound, 0, MaxBatchCallbacks, 0))
    /\ RetryParked
    /\ TopicInit

SpecBatch == BatchInit /\ [][BatchNext]_vars

\* Albums of users, private and in a group, over a transport that does not
\* fail, followed until the timer of a late part has fired too.
LateNext ==
    \/ UserMessage(Albums)
    \/ GroupMessage(Albums)
    \/ JobRuns
    \/ LateTick

LateInit ==
    /\ RelayInit(Budget(0, MaxInbound, 0, 0, 0))
    /\ RetryParked
    /\ TopicInit

SpecLate == LateInit /\ [][LateNext]_vars

\* Stored parts their senders may delete before the timer fires.
MaxDeleted == 1

\* The sender of a stored part deletes it from the chat it was written in.
\* No update tells the bot, so the store keeps the part.
SenderDeletes ==
    \E i \in DOMAIN media_group_messages :
        LET part == [chat_id |-> media_group_messages[i].chat_id,
                     message_id |-> media_group_messages[i].message_id]
        IN  /\ Cardinality(deleted) < MaxDeleted
            /\ part \notin deleted
            /\ deleted' = deleted \cup {part}
            /\ UNCHANGED <<formn_status, message_map, media_group_messages, user_table,
                           message_thread_id, job_queue, keyboards, next_id, now, premium,
                           budget, delivered, rejected, has_job_queue, ev, tasks, retryVars>>

\* Albums of users, private and in a group, over a transport that does not
\* fail, when a part may be gone by the time its batch is relayed.
SkipNext ==
    \/ UserMessage(Albums)
    \/ GroupMessage(Albums)
    \/ SenderDeletes
    \/ JobRuns
    \/ Tick

SkipInit ==
    /\ RelayInit(Budget(0, MaxInbound, 0, 0, 0))
    /\ RetryParked
    /\ TopicInit

SpecSkip == SkipInit /\ [][SkipNext]_vars

\* Single messages and albums of users, private and in a group, over a
\* transport that may fail while a message or a batch is relayed.
AnyMessage == NoAlbum \cup Albums

FaultyNext ==
    \/ UserMessage(AnyMessage)
    \/ GroupMessage(AnyMessage)
    \/ JobRuns
    \/ Tick

FaultyInit ==
    /\ RelayInit(Budget(MaxFaults, MaxInbound, 0, 0, 0))
    /\ RetryParked
    /\ TopicInit

SpecFaulty == FaultyInit /\ [][FaultyNext]_vars

\* The errors the delivery of an operator's message may end with: the retry
\* budget spent on transient errors, or a Forbidden (the user has blocked
\* the bot or is deactivated), which is not retried.
DeliveryErrors == {"none", "transient", "forbidden"}
MaxDeliveryOperator == 2

DeliveryNext ==
    \/ UserMessage(NoAlbum)
    \/ GroupMessage(NoAlbum)
    \/ OperatorDelivery(NoAlbum, DeliveryErrors)

DeliveryInit ==
    /\ RelayInit(Budget(MaxFaults, MaxInbound, MaxDeliveryOperator, 0, 0))
    /\ RetryParked
    /\ TopicInit

SpecDelivery == DeliveryInit /\ [][DeliveryNext]_vars

\* First names of users whose thread is relabelled: plain, holding the
\* premium marker themselves, and long enough for the name to be cut.
LabelFirstNames == {<<"N">>, <<premium_mark, "N">>, <<"N", premium_mark>>, <<"N", "N", "N">>}
MaxLabelPremium == 3

\* The first resolution for a user of first name `first_name`: the thread
\* is created and its row inserted under the name built for it.
LabelCreated ==
    \E u \in Users, first_name \in LabelFirstNames, from_group \in BOOLEAN :
        /\ formn_status = <<>>
        /\ formn_status' = <<ThreadRow(u, next_id[admin_group_id],
                                       TopicNameOf(first_name, from_group, premium[u]),
                                       from_group, IF from_group THEN -2002 ELSE 0)>>
        /\ next_id' = [next_id EXCEPT ![admin_group_id] = @ + 2]
        /\ UNCHANGED <<message_map, media_group_messages, user_table, message_thread_id,
                       job_queue, keyboards, now, premium, budget, delivered, rejected,
                       deleted, has_job_queue, ev, tasks, retryVars>>

\* A later resolution of the thread of a user: create_or_get_user_topic
\* finds the row.  The history notes the tier the call saw.
Resolves ==
    \E u \in Users, orc \in Oracles(1) :
        /\ formn_status # <<>>
        /\ Injects(orc)
        /\ Commit(create_or_get_user_topic(
                      [Started(orc, "create_or_get_user_topic", u, formn_status[1].from_group,
                               formn_status[1].source_group_id)
                          EXCEPT !.ev.tier = premium[u]],
                      u, premium[u], formn_status[1].from_group,
                      formn_status[1].source_group_id).w)

LabelNext ==
    \/ LabelCreated
    \/ PremiumChanges
    \/ Resolves

LabelInit ==
    /\ RelayInit(Budget(MaxFaults, 0, 0, 0, MaxLabelPremium))
    /\ RetryParked
    /\ TopicInit

SpecLabel == LabelInit /\ [][LabelNext]_vars

\* Messages the operators may write when the application has no job queue.
MaxQueuelessOperator == 2

\* Albums of users and of operators, over a transport that does not fail,
\* handled with a context whose job_queue is None.
QueuelessNext ==
    \/ UserMessage(Albums)
    \/ GroupMessage(Albums)
    \/ OperatorMessage(Albums)

QueuelessInit ==
    /\ RelayState(Budget(0, MaxInbound, MaxQueuelessOperator, 0, 0))
    /\ has_job_queue = FALSE
    /\ RetryParked
    /\ TopicInit

SpecQueueless == QueuelessInit /\ [][QueuelessNext]_vars

\* Messages per user-side chat, and callback buttons pressed, when the
\* ids of a group's messages are followed past the ids of the mirrors.
MaxAlertInbound == 7
MaxAlertCallbacks == 1

\* A member writes in a source group without mentioning the bot: the
\* message takes the group's next id and handle_group_mention returns.
GroupChatter ==
    \E u \in Users, c \in Groups, orc \in Oracles(MaxCalls) :
        /\ next_id[c] <= budget.inbound
        /\ Injects(orc)
        /\ Commit(handle_group_mention(
               Arrived(orc, "handle_group_mention", c, u, TRUE, c),
               u, c, premium[u], Message(c, 0, 0, 0, FALSE)))

\* Single messages of a user in a busy group, and the buttons of their
\* alerts, over a transport that does not fail.
AlertNext ==
    \/ GroupMessage(NoAlbum)
    \/ GroupChatter
    \/ CallbackQuery

AlertInit ==
    /\ RelayInit(Budget(0, MaxAlertInbound, 0, MaxAlertCallbacks, 0))
    /\ RetryParked
    /\ TopicInit

SpecAlert == AlertInit /\ [][AlertNext]_vars

ConcurrentInit ==
    /\ RelayInit(Budget(MaxTopicFaults, 0, 0, 0, 0))
    /\ RetryParked
    /\ TopicInit

SpecTopic == ConcurrentInit /\ [][TopicNext]_vars

BotInit ==
    /\ RelayInit(Budget(MaxBotFaults, MaxBotInbound, MaxBotOperator, 0, 0))
    /\ RetryParked
    /\ TopicInit

SpecBot == BotInit /\ [][BotNext]_vars

BackoffInit ==
    /\ RetryInit
    /\ RelayInit(Budget(0, 0, 0, 0, 0))
    /\ TopicInit

SpecRetry == BackoffInit /\ [][RetryNext /\ UNCHANGED <<relayVars, tasks>>]_vars

\* Every one of the first n invocations raised a transient error.
AllTransient(n) == \A i \in 1..n : attempts[i] = "transient"

\* C7: a call whose first k <= max_retries invocations fail transiently and
\* whose next one succeeds invokes func exactly k + 1 times and returns the
\* success; a call whose invocations all fail transiently invokes func
\* exactly max_retries + 1 times and then raises the transient error; until
\* one of the two happens the call keeps retrying.
C7_RetryInvocations ==
    /\ rresult.kind = "running" =>
           /\ Len(attempts) <= max_retries
           /\ AllTransient(Len(attempts))
           /\ retries = Len(attempts)
    /\ rresult.kind = "ok" =>
           /\ Len(attempts) <= max_retries + 1
           /\ AllTransient(Len(attempts) - 1)
           /\ attempts[Len(attempts)] = "ok"
    /\ rresult.kind = "transient" =>
           /\ Len(attempts) = max_retries + 1
           /\ AllTransient(Len(attempts))

\* The last permitted retry succeeds: max_retries failures, then success.
C7_Witness ==
    /\ rresult.kind = "ok"
    /\ max_retries >= 2
    /\ Len(attempts) = max_retries + 1

(***************************************************************************)
(* Properties of the relay                                                 *)
(***************************************************************************)
\* The step is a run of handler `op` for a message that has just arrived.
Handled(op) == ev'.op = op /\ next_id' # next_id

\* The step is a run of one of the two handlers of user messages.
UserHandled == Handled("forwarding_message_u2a") \/ Handled("handle_group_mention")

\* The source-channel key of a cross-reference and of the run that made ev:
\* the id of the group, 0 for the private chat.
RowKey(row) == IF row.is_from_group THEN row.source_group_id ELSE 0
EventKey(e) == IF e.from_group THEN e.source_group_id ELSE 0

\* The user has an unread cross-reference of the private chat.
HasUnreadPrivate(user) ==
    \E i \in DOMAIN message_map : IsUnreadOf(message_map[i], user, FALSE, 0)

\* C2: the relay of one private message recreates the user's thread at most
\* once, however often the transport reports the thread as missing.
C2_RecreatesAtMostOnce ==
    ev.op = "forwarding_message_u2a" => ev.recreations <= 1

\* C3: a private message that is relayed while the user already has an
\* unread private cross-reference posts no alert, whether or not it is a
\* reply; one relayed while there is none posts exactly one alert, the
\* transport permitting.
C3_OneAlertPerBurst ==
    [][(Handled("forwarding_message_u2a") /\ ev'.relayed # <<>>) =>
          /\ HasUnreadPrivate(ev'.user) => ev'.alerts = 0
          /\ (~HasUnreadPrivate(ev'.user) /\ budget'.faults = budget.faults) => ev'.alerts = 1
      ]_vars

\* C4: a mark-read for (user, source S), by an operator's message in the
\* thread or by the buttons read_<id> and read_all_<user>, leaves the unread
\* flag, the handler and the handling time of every cross-reference of
\* another source as they were.
C4_MarkReadScoped ==
    [][ev'.op \in {"forwarding_message_a2u", "read", "read_all"} =>
          \A i \in DOMAIN message_map :
              RowKey(message_map[i]) # EventKey(ev') =>
                  /\ message_map'[i].is_unread_topic = message_map[i].is_unread_topic
                  /\ message_map'[i].handled_by_user_id = message_map[i].handled_by_user_id
                  /\ message_map'[i].handled_time = message_map[i].handled_time
      ]_vars

\* C5: a copy of a message that replies to the mirror of an earlier message
\* is sent as a reply to that earlier message, in both directions.
C5_ReplyThreading ==
    \A d \in delivered : \A c \in delivered :
        (/\ d.replied_to # 0
         /\ c.to_chat = d.from_chat
         /\ c.to_id = d.replied_to
         /\ c.from_chat = d.to_chat) => d.reply_to = c.from_id

\* C9: a message of a banned user is answered with the banned notice and
\* changes neither the threads, the cross-references, the copies made nor
\* the alerts; it is never relayed later either; a user who is not banned
\* is not answered with the banned notice.
C9_BannedRejected ==
    [][/\ (UserHandled /\ user_table[ev'.user] = "banned") =>
              /\ ev'.notice = NoticeBanned \/ ev'.notice = ""
              /\ ev'.op = "forwarding_message_u2a" => ev'.notice = NoticeBanned
              /\ formn_status' = formn_status
              /\ message_map' = message_map
              /\ delivered' = delivered
              /\ keyboards' = keyboards
       /\ (UserHandled /\ user_table[ev'.user] # "banned") => ev'.notice # NoticeBanned
       /\ \A d \in delivered' :
              [chat_id |-> d.from_chat, message_id |-> d.from_id] \notin rejected'
      ]_vars

StoredParts(media_group_id, chat_id) ==
    PartIds([mg |-> media_group_messages], media_group_id, chat_id)

\* C6: a timer that fires relays the stored parts of its batch by one call;
\* a part that arrives while the timer of its batch is pending starts no
\* second timer; a part that arrives when none is pending, the first or one
\* after the timer has fired, starts a timer due MEDIA_GROUP_DELAY later and
\* leaves the copies already made as they are.
C6_BatchWindow ==
    [][/\ \A job \in job_queue \ job_queue' :
              /\ ev'.calls <= 1
              /\ ev'.calls = 1 => ev'.batch = StoredParts(job.media_group_id, job.chat_id)
              /\ budget'.faults = budget.faults => ev'.calls = 1
       /\ (ev'.stored = 1 /\ next_id' # next_id) =>
              /\ job_queue \subseteq job_queue'
              /\ Cardinality(job_queue' \ job_queue) <= 1
              /\ \A job \in job_queue' \ job_queue :
                     /\ job.run_at = now + MEDIA_GROUP_DELAY
                     /\ \A old \in job_queue : old.name # job.name
              /\ delivered' = delivered
              /\ ev'.op = "forwarding_message_u2a" =>
                     \E job \in job_queue' :
                         /\ job.media_group_id = media_group_messages'[Len(media_group_messages')].media_group_id
                         /\ job.chat_id = ev'.user
      ]_vars

\* Two parts that arrived before the timer fired went out in one call.
C6_Witness ==
    /\ ev.op = "send_media_group_to_admin"
    /\ ev.calls = 1
    /\ Len(ev.batch) = 2
    /\ now = MEDIA_GROUP_DELAY
    /\ Cardinality(delivered) = 2

\* C1: in every state, whatever the interleaving of the tasks that call
\* create_or_get_user_topic, no two rows of user threads have the same user
\* and the same source, and a task that was returned a thread finds the
\* user and source with a row.
C1_OneThreadPerSource ==
    /\ \A i, j \in DOMAIN formn_status :
           (/\ ~formn_status[i].is_system_topic
            /\ ~formn_status[j].is_system_topic
            /\ formn_status[i].user_id = formn_status[j].user_id
            /\ formn_status[i].from_group = formn_status[j].from_group
            /\ formn_status[i].source_group_id = formn_status[j].source_group_id) => i = j
    /\ \A t \in TaskIds :
           (tasks[t].pc = "returned" /\ tasks[t].topic # 0) =>
               \E i \in DOMAIN formn_status :
                   IsThreadOf(formn_status[i], tasks[t].user, tasks[t].from_group,
                              tasks[t].source_group_id)

\* The thread of the user has a row of status closed.
ThreadClosed(user) ==
    \E i \in DOMAIN formn_status :
        /\ formn_status[i].message_thread_id = message_thread_id[user]
        /\ \A j \in 1..(i - 1) : formn_status[j].message_thread_id # message_thread_id[user]
        /\ formn_status[i].status = "closed"

Permanent == {"stale", "badreq", "forbidden"}

\* C11: an invocation of func that raises a stale-resource error or another
\* non-transient error is the last one, whatever number of transient
\* failures came before it: the call ends with that error, marked as
\* requiring recreation exactly when it is the stale one, and no sleep
\* follows it.
C11_PermanentNotRetried ==
    \A i \in DOMAIN attempts :
        attempts[i] \in Permanent =>
            /\ i = Len(attempts)
            /\ rresult = [kind |-> attempts[i], recreation |-> attempts[i] = "stale"]
            /\ Len(slept) = i - 1
            /\ retries = i - 1

\* Two transient failures, then the thread is reported missing.
C11_Witness ==
    /\ rresult.kind = "stale"
    /\ rresult.recreation
    /\ attempts = <<"transient", "transient", "stale">>

\* C12: in every state each message of a user has been copied into the
\* admin forum at most once and has at most one cross-reference, however
\* many timers of its album have fired.
C12_PartsRelayedOnce ==
    /\ \A d, c \in delivered :
           (d.dir = "u2a" /\ c.dir = "u2a" /\ d.from_chat = c.from_chat /\ d.from_id = c.from_id)
               => d = c
    /\ \A i, j \in DOMAIN message_map :
           (/\ message_map[i].user_telegram_id = message_map[j].user_telegram_id
            /\ message_map[i].is_from_group = message_map[j].is_from_group
            /\ message_map[i].source_group_id = message_map[j].source_group_id
            /\ message_map[i].user_chat_message_id = message_map[j].user_chat_message_id)
               => i = j

\* The step stores a part of an album.
PartArrives ==
    /\ ev'.stored = 1
    /\ Len(media_group_messages') = Len(media_group_messages) + 1

\* The timers of the album of part p that are pending; an album of a user
\* is known by its id and its chat.
PendingFor(p) ==
    {j \in job_queue : /\ j.media_group_id = p.media_group_id
                       /\ j.chat_id = p.chat_id
                       /\ p.chat_id # admin_group_id}

\* C13: no two pending timers have the same name; a part of a user that
\* arrives while a timer of its album is pending is stored and leaves the
\* timers as they are; any other part starts at most one timer, under a
\* name no pending timer has; a timer that fires is due, leaves the queue
\* alone and makes at most one batch copy call.
C13_OneTimerPerKey ==
    [][/\ \A j1, j2 \in job_queue' : j1.name = j2.name => j1 = j2
       /\ PartArrives =>
              LET p == media_group_messages'[Len(media_group_messages')] IN
              IF PendingFor(p) # {}
              THEN job_queue' = job_queue /\ ev'.scheduled = 0
              ELSE /\ job_queue \subseteq job_queue'
                   /\ Cardinality(job_queue' \ job_queue) = ev'.scheduled
                   /\ ev'.scheduled <= 1
                   /\ \A j \in job_queue' \ job_queue : \A o \in job_queue : o.name # j.name
       /\ job_queue' \ job_queue = {} /\ job_queue' # job_queue =>
              /\ Cardinality(job_queue \ job_queue') = 1
              /\ \A j \in job_queue \ job_queue' : j.run_at <= now /\ ev'.op = j.callback
              /\ ev'.stored = 0
              /\ ev'.calls <= 1
      ]_vars

\* The second part of a private album arrived while the timer was pending.
C13_Witness ==
    /\ ev.op = "forwarding_message_u2a"
    /\ ev.stored = 1
    /\ ev.scheduled = 0
    /\ Cardinality(job_queue) = 1
    /\ Len(media_group_messages) = 2

\* C14: the timer of a banned user's batch fires as any other and relays
\* the parts stored for it; a message a banned user sends, in the private
\* chat or in a group, is not stored as a part, and no batch that is
\* relayed holds a message that was answered with the banned notice.
C14_BanAndPendingBatch ==
    [][/\ \A job \in job_queue \ job_queue' :
              (job.user_id \in Users /\ user_table[job.user_id] = "banned"
                  /\ budget'.faults = budget.faults) =>
                  /\ ev'.calls = 1
                  /\ ev'.batch = StoredParts(job.media_group_id, job.chat_id)
       /\ (UserHandled /\ user_table[ev'.user] = "banned") =>
              /\ media_group_messages' = media_group_messages
              /\ ev'.stored = 0
       /\ \A job \in job_queue \ job_queue' :
              \A i \in DOMAIN ev'.batch :
                  [chat_id |-> job.chat_id, message_id |-> ev'.batch[i]] \notin rejected
      ]_vars

\* The cross-references of the source a copy came from: the private chat of
\* the user, or a group.
OfSource(row, d) ==
    /\ row.user_telegram_id = d.user
    /\ row.is_from_group = (d.from_chat # d.user)
    /\ row.is_from_group => row.source_group_id = d.from_chat

\* C15: in every state, for every copy of a user's message o made into the
\* admin forum as m, the first cross-reference of that source found by the
\* mirror id m exists and names o as the user-side id, and the first one
\* found by the origin id o exists and names m as the admin-side id.
C15_OriginAndMirror ==
    \A d \in delivered :
        d.dir = "u2a" =>
            /\ \E i \in DOMAIN message_map :
                   /\ OfSource(message_map[i], d)
                   /\ message_map[i].group_chat_message_id = d.to_id
                   /\ message_map[i].user_chat_message_id = d.from_id
            /\ \A i \in DOMAIN message_map :
                   (OfSource(message_map[i], d) /\ message_map[i].group_chat_message_id = d.to_id)
                       => message_map[i].user_chat_message_id = d.from_id

\* A cross-reference that pairs a copy with the message it is a copy of.
Pairs(row, d) ==
    /\ row.user_telegram_id = d.user
    /\ IF d.dir = "u2a"
       THEN row.user_chat_message_id = d.from_id /\ row.group_chat_message_id = d.to_id
       ELSE row.user_chat_message_id = d.to_id /\ row.group_chat_message_id = d.from_id

\* C16: when a batch relay submits its parts and the transport returns the
\* copies it made, as many or fewer, every cross-reference the relay inserts
\* pairs a copy made by that relay with the part it is a copy of.
C16_BatchRowsPairCopies ==
    [][ev'.calls >= 1 =>
           \A i \in (Len(message_map) + 1)..Len(message_map') :
               \E d \in delivered' \ delivered : Pairs(message_map'[i], d)]_vars

\* A cross-reference that holds the two ids of a copy, in either column.
RowOf(row, d) ==
    /\ row.user_telegram_id = d.user
    /\ {row.user_chat_message_id, row.group_chat_message_id} = {d.from_id, d.to_id}

\* The copies made so far of a stored part.
CopiesOf(q, copies) == {d \in copies : d.from_chat = q.chat_id /\ d.from_id = q.message_id}

\* C17: without a job queue no timer is started, and the handler that
\* receives a part of an album relays it at once as a single message, one
\* copy and one cross-reference for it; in a group, where an album is
\* relayed once one of its parts mentions the bot, every part stored of
\* such an album has been relayed so.
C17_PartsRelayedSingly ==
    [][(PartArrives /\ ~has_job_queue /\ ev'.user # 0) =>
           LET p == media_group_messages'[Len(media_group_messages')]
               album == {media_group_messages'[i] : i \in
                            {j \in DOMAIN media_group_messages' :
                                /\ media_group_messages'[j].media_group_id = p.media_group_id
                                /\ media_group_messages'[j].chat_id = p.chat_id}}
           IN  /\ job_queue' = {}
               /\ (p.chat_id \in Groups => \E q \in album : q.mention) =>
                      \A q \in (IF p.chat_id \in Groups THEN album ELSE {p}) :
                          /\ Cardinality(CopiesOf(q, delivered')) = 1
                          /\ Cardinality({j \in DOMAIN message_map' :
                                 \E d \in CopiesOf(q, delivered') :
                                     RowOf(message_map'[j], d)}) = 1]_vars

\* The ids of the messages that carry buttons.
WithButtons(kb) == {b.message_id : b \in kb}

\* C18: an alert that shows the button read_<mirror id> is stored, with the
\* unread flag, on the cross-reference of that mirror, a row of the user
\* and source the mirrored message came from; and when rows are marked as
\* handled, the alerts deleted are exactly the alerts stored on those rows.
C18_AlertOnOwnRow ==
    [][/\ \A b \in keyboards' : b.kind = "read" =>
              \E d \in delivered' :
                  /\ d.dir = "u2a" /\ d.to_id = b.arg
                  /\ \E i \in DOMAIN message_map' :
                         /\ RowOf(message_map'[i], d)
                         /\ OfSource(message_map'[i], d)
                         /\ message_map'[i].is_unread_topic
                         /\ message_map'[i].unread_topic_message_id = b.message_id
       /\ ev'.marked >= 1 =>
              WithButtons(keyboards) \ WithButtons(keyboards') =
                  {message_map[i].unread_topic_message_id : i \in
                      {j \in DOMAIN message_map :
                          /\ message_map[j].is_unread_topic
                          /\ ~message_map'[j].is_unread_topic
                          /\ message_map[j].unread_topic_message_id # 0}}]_vars

\* The rows of the unread system thread.
UnreadThreads(fs) ==
    {fs[i].topic_id : i \in {j \in DOMAIN fs :
                                fs[j].is_system_topic /\ fs[j].topic_name = UNREAD_TOPIC_NAME}}

\* The cross-reference rows that carry the unread flag.
Flagged(mm) == {i \in DOMAIN mm : mm[i].is_unread_topic}

Cleared == Flagged(message_map) \ Flagged(message_map')

\* Two rows of the same user and source.
SameSource(r1, r2) ==
    /\ r1.user_telegram_id = r2.user_telegram_id
    /\ r1.is_from_group = r2.is_from_group
    /\ r1.is_from_group => r1.source_group_id = r2.source_group_id

\* The cleared rows whose alert still shows its buttons: its deletion failed.
AlertsLeft ==
    {i \in Cleared : /\ message_map[i].unread_topic_message_id # 0
                      /\ message_map[i].unread_topic_message_id \in WithButtons(keyboards')}

\* C20: a step that marks rows as handled clears every unread row of the
\* user and source of a row it clears, stamps each with a handler and the
\* time, and asks for the deletion of each stored alert: an alert that is
\* left is a failure the transport reported.  A failed deletion ends
\* neither the loop nor the operation: the counted rows are all cleared,
\* and no failure notice is sent when only deletions failed.
C20_DeleteFailureIgnored ==
    [][ev'.marked >= 1 =>
           /\ Cardinality(Cleared) = ev'.marked
           /\ \A i \in Cleared :
                  /\ message_map'[i].handled_time = now
                  /\ message_map'[i].handled_by_user_id \in Operators \cup {BotId}
                  /\ \A j \in Flagged(message_map) :
                         SameSource(message_map[i], message_map[j]) => j \in Cleared
           /\ Cardinality(AlertsLeft) <= budget.faults - budget'.faults
           /\ (AlertsLeft # {} /\ Cardinality(AlertsLeft) = budget.faults - budget'.faults) =>
                  ev'.notice = ""]_vars

C20_Witness ==
    /\ ev.op = "read_all"
    /\ ev.marked >= 1
    /\ ev.notice = ""
    /\ \E i \in DOMAIN message_map :
           /\ ~message_map[i].is_unread_topic
           /\ message_map[i].handled_time >= 0
           /\ message_map[i].unread_topic_message_id \in WithButtons(keyboards)

StatusOf(fs, thread) ==
    LET k == CHOOSE i \in DOMAIN fs :
                 /\ fs[i].message_thread_id = thread
                 /\ \A j \in 1..(i - 1) : fs[j].message_thread_id # thread
    IN  fs[k].status

HasStatus(fs, thread) == \E i \in DOMAIN fs : fs[i].message_thread_id = thread

\* C22: the status of a thread is opened or closed; a thread-closed
\* signal for the thread of a user leaves the status of the thread closed
\* and has the user told that the conversation has ended, a thread-reopened
\* signal leaves it opened and has the user told that it was reopened, so
\* that the stored status is that of the last signal.
C22_StatusFollowsSignals ==
    /\ [](\A i \in DOMAIN formn_status : formn_status[i].status \in {"opened", "closed"})
    /\ [][(/\ Handled("bot_forwarding_message_a2u")
            /\ ev'.signal \in {"closed", "reopened"}
            /\ HasStatus(formn_status, message_thread_id[ev'.user])) =>
               /\ StatusOf(formn_status', message_thread_id[ev'.user]) =
                      (IF ev'.signal = "closed" THEN "closed" ELSE "opened")
               /\ ev'.notice = (IF ev'.signal = "closed" THEN NoticeConversationEnded
                                ELSE NoticeConversationReopened)
          ]_vars

\* The step runs the timer callback `job` of an album of a user.
TimerRan(job) ==
    /\ job \notin job_queue'
    /\ ev'.op = job.callback
    /\ job.callback \in {"send_media_group_to_admin", "send_group_media_to_admin"}

\* The stored parts a timer callback relays.
PartsOf(job) ==
    {media_group_messages[i] : i \in
        {k \in DOMAIN media_group_messages :
            /\ media_group_messages[k].media_group_id = job.media_group_id
            /\ media_group_messages[k].chat_id =
                   (IF job.callback = "send_media_group_to_admin" THEN job.user_id
                    ELSE job.chat_id)}}

\* Message `id` of `user` has a cross-reference in mm.
CrossReferenced(mm, user, id) ==
    \E i \in DOMAIN mm :
        /\ mm[i].user_telegram_id = user
        /\ id \in {mm[i].user_chat_message_id, mm[i].group_chat_message_id}

\* C23: a message of a user who is not banned ends relayed with a
\* cross-reference or with a failure notice to its sender: a message
\* outside any album when its handler has run, the parts of an album when
\* the timer of the album has run; a thread reported missing leads to a
\* recreation and a second try and, failing that, to a notice, never to a
\* silent drop.
C23_RelayedOrReported ==
    [][/\ (/\ UserHandled
            /\ user_table[ev'.user] # "banned"
            /\ ev'.stored = 0
            /\ job_queue' = job_queue) =>
               \/ ev'.notice # ""
               \/ /\ ev'.relayed # <<>>
                  /\ Len(message_map') > Len(message_map)
       /\ \A job \in job_queue :
              (TimerRan(job) /\ user_table[job.user_id] # "banned") =>
                  \/ ev'.notice # ""
                  \/ \A p \in PartsOf(job) :
                         CrossReferenced(message_map', job.user_id, p.message_id)
      ]_vars

\* C24: when the delivery of an operator's message to a user ends with a
\* Forbidden (the user blocked the bot, is deactivated), the operator gets
\* the recipient-unavailable notice, which is neither the notice for
\* unsupported content nor the retry-later notice, and no cross-reference
\* is recorded.
C24_RecipientUnavailableNotice ==
    [][(/\ Handled("forwarding_message_a2u")
        /\ ev'.error = "forbidden"
        /\ ~ev'.from_group) =>
           /\ ev'.notice = NoticeRecipientUnavailable
           /\ ev'.notice \notin {NoticeUnsupported, NoticeRetryLater}
           /\ ev'.relayed = <<>>
           /\ message_map' = message_map
      ]_vars

\* The notices that tell the sender of a failure without naming the error.
GenericNotices == {NoticeRetryLater, NoticeGroupFailed, NoticeContactAdmin}

\* C25: when the relay of a message fails because the retry budget was
\* spent on transient errors, the sender gets the generic retry-later
\* notice and no cross-reference is recorded: the user for a message to
\* the workspace, the operator for a message to a user.
C25_RetryLaterNotice ==
    [][/\ (/\ UserHandled
            /\ user_table[ev'.user] # "banned"
            /\ budget'.faults < budget.faults
            /\ ev'.relayed = <<>>) =>
               /\ ev'.notice \in GenericNotices
               /\ Len(message_map') = Len(message_map)
       /\ (/\ Handled("forwarding_message_a2u")
            /\ ev'.error = "transient"
            /\ ~ev'.from_group) =>
               /\ ev'.notice = NoticeRetryLater
               /\ ev'.relayed = <<>>
               /\ Len(message_map') = Len(message_map)
      ]_vars

\* C26: every call of the transport made while relaying (the copy of a
\* single message, the copy of a batch, the post of an alert and its
\* second post after the recreation of the unread thread, the edit of a
\* thread's label, the deletion of an alert) goes through
\* retry_with_backoff.
C26_AllCallsRetried ==
    \A c \in ev.transport : c.retried

\* What identifies a cross-reference: the origin id, the mirror id, the
\* user, and the source it was relayed from.
Identity(row) ==
    <<row.user_chat_message_id, row.group_chat_message_id, row.user_telegram_id,
      row.is_from_group, row.source_group_id>>

\* C27: the cross-references are append-only: no step removes a row, and
\* no step changes the origin id, the mirror id, the user or the source of
\* a row; the unread flag, the alert id and the handling columns are all
\* that changes in a row that exists.
C27_CrossReferencesAppendOnly ==
    [][/\ Len(message_map') >= Len(message_map)
       /\ \A i \in DOMAIN message_map : Identity(message_map'[i]) = Identity(message_map[i])
      ]_vars

\* After two relays an operator has marked a row read: the row has lost
\* its flag and names its handler, and a later row has been appended.
C27_Witness ==
    /\ Len(message_map) >= 2
    /\ ~message_map[1].is_unread_topic
    /\ message_map[1].handled_by_user_id \in Operators
    /\ message_map[1].unread_topic_message_id # 0
    /\ ev.op \in {"read", "read_all"}

\* C28: the waits of one call of retry_with_backoff start at the
\* configured initial wait, double with each further retry and never
\* exceed max_wait: the wait before the n-th retry is
\* min(initial_wait * 2^(n-1), max_wait), and the waits never decrease.
C28_BackoffWaits ==
    /\ \A n \in DOMAIN slept : slept[n] = Min(initial_wait * 2^(n - 1), max_wait)
    /\ \A n \in DOMAIN slept : slept[n] <= max_wait
    /\ \A m, n \in DOMAIN slept : m <= n => slept[m] <= slept[n]

\* formn_status fs holds the row of a thread for the user and source of
\* cross-reference `row`.
HasThreadFor(fs, row) ==
    \E i \in DOMAIN fs :
        IsThreadOf(fs[i], row.user_telegram_id, row.is_from_group, row.source_group_id)

\* C29: whenever a handler run records cross-references, formn_status
\* holds a thread of the user and source of each of them when the run
\* ends, also when the run had to replace a thread reported missing.
C29_ThreadBeforeCrossReference ==
    [][\A i \in DOMAIN message_map' :
           i > Len(message_map) => HasThreadFor(formn_status', message_map'[i])
      ]_vars

\* A message was relayed and cross-referenced after its thread had been
\* reported missing and replaced.
C29_Witness ==
    /\ ev.recreations >= 1
    /\ ev.relayed # <<>>
    /\ message_map # <<>>
    /\ HasThreadFor(formn_status, message_map[Len(message_map)])
    /\ message_map[Len(message_map)].group_chat_message_id = ev.relayed[Len(ev.relayed)]

\* The step resolves the thread of a user whose row exists.
Resolved == ev'.op = "create_or_get_user_topic" /\ budget'.premium = budget.premium /\ formn_status # <<>>

\* The call edited the label of the thread.
LabelEdited(e) == [method |-> "edit_forum_topic", retried |-> FALSE] \in e.transport

\* C30: when create_or_get_user_topic finds the row of a thread and its
\* edit of the remote label succeeds, the stored name carries the premium
\* marker exactly if the user is premium, and the remote label was edited
\* in the same call; a second resolution at the same tier, after one that
\* did not fail, edits nothing: for private threads and for group threads.
C30_LabelFollowsTier ==
    [][Resolved =>
          /\ (LabelEdited(ev') /\ budget'.faults = budget.faults) =>
                 /\ formn_status'[1].topic_id = formn_status[1].topic_id
                 /\ formn_status'[1].topic_name # formn_status[1].topic_name
                 /\ HasMark(formn_status'[1].topic_name) <=> ev'.tier
          /\ formn_status'[1].topic_name # formn_status[1].topic_name => LabelEdited(ev')
          /\ (/\ ev.op = "create_or_get_user_topic"
              /\ ev.tier = ev'.tier
              /\ budget.faults = MaxFaults) => ~LabelEdited(ev')
      ]_vars

\* A premium user's group thread whose name was cut to fit has been
\* resolved twice at the same tier: the first call put the marker after
\* the group prefix, the second edited nothing.
C30_Witness ==
    /\ ev.op = "create_or_get_user_topic"
    /\ ev.tier = TRUE
    /\ ~LabelEdited(ev)
    /\ budget.faults = MaxFaults
    /\ formn_status # <<>>
    /\ formn_status[1].from_group
    /\ formn_status[1].topic_name = <<GroupPrefix, premium_mark, "N", "N">>

\* The step records at least one cross-reference of a message of a user:
\* a run of one of the two handlers of user messages or of the timer
\* callback of a user's album.
InboundRelayed ==
    /\ Len(message_map') > Len(message_map)
    /\ ev'.op \in {"forwarding_message_u2a", "handle_group_mention",
                   "send_media_group_to_admin", "send_group_media_to_admin"}

\* The first cross-reference the step has recorded.
FirstRecorded == message_map'[Len(message_map) + 1]

\* C31: after every relay of a user's message that recorded a
\* cross-reference (private or group, a single message or an album, whose
\* first part is meant), the row just recorded for the message ends flagged
\* unread, and an alert has been posted in the run unless the user and
\* source had an unread row before.
C31_RelayedRowFlagged ==
    [][InboundRelayed =>
          /\ FirstRecorded.is_unread_topic
          /\ (~\E i \in DOMAIN message_map :
                   IsUnreadOf(message_map[i], FirstRecorded.user_telegram_id,
                              FirstRecorded.is_from_group, FirstRecorded.source_group_id))
                 => ev'.alerts >= 1
      ]_vars

(***************************************************************************)
(* send_to_unread_topic and the mark-read loop run by tasks that           *)
(* interleave at their awaits                                              *)
(***************************************************************************)
\* The handler of a user's message awaits the transport when it posts the
\* alert; the mark-read loop at the end of the timer callback of an
\* operator's album (and of the handlers of an operator's message and of
\* the read_all button) awaits it for every alert it deletes, and commits
\* after the last.  A timer callback runs as a task of its own.  Each task
\* has a database session of its own (get_db, autoflush off): the others
\* see what it changed when it commits.
MaxUnreadInbound == 3
MaxUnreadMarks == 2

\* A task: where it is; the row it is to flag and what the alert will say;
\* the rows its query returned, the alert ids they had, the one whose
\* deletion it awaits, and the handling time it stamps.
UnreadIdle == [pc |-> "idle", user |-> 0, row |-> 0, admin_message |-> 0, link |-> 0,
               unread_topic |-> 0, rows |-> <<>>, alerts |-> <<>>, at |-> 0, time |-> 0]

\* db.commit() of a task: what the task has done becomes the state.
Written(w) ==
    /\ UNCHANGED <<now, premium, deleted, has_job_queue, retryVars>>
    /\ formn_status' = w.fs
    /\ message_map' = w.mm
    /\ media_group_messages' = w.mg
    /\ user_table' = w.ut
    /\ message_thread_id' = w.th
    /\ job_queue' = w.jq
    /\ keyboards' = w.kb
    /\ next_id' = w.ids
    /\ delivered' = w.dl
    /\ rejected' = w.rj
    /\ ev' = w.ev

\* A task is in send_to_unread_topic.
Relaying == \E t \in TaskIds : tasks[t].pc = "send_message"

\* A private message of a user is relayed by forward_message_to_admin and
\* its cross-reference inserted; send_to_unread_topic finds the row, and
\* either flags it because the user has an unread private row, or asks the
\* transport to post the alert and waits.
RelayTaskStarts(t) ==
    \E u \in Users :
        LET message == Message(u, 0, 0, 0, FALSE)
            Looked(w, admin_message, topic, unread_topic) ==
                LET k == FirstRow(w.mm, LAMBDA row : row.group_chat_message_id = admin_message)
                    existing == FirstRow(w.mm, LAMBDA r :
                                    IsUnreadOf(r, u, w.mm[k].is_from_group,
                                               w.mm[k].source_group_id))
                IN  IF existing # 0
                    THEN /\ Written([w EXCEPT !.mm[k].is_unread_topic = TRUE])
                         /\ UNCHANGED tasks
                    ELSE /\ Written(w)
                         /\ tasks' = [tasks EXCEPT ![t] =
                                [UnreadIdle EXCEPT
                                    !.pc = "send_message", !.user = u, !.row = k,
                                    !.admin_message = admin_message,
                                    !.link = LinkTopic(w, u, topic, w.mm[k].is_from_group,
                                                       w.mm[k].source_group_id),
                                    !.unread_topic = unread_topic]]
            Sent(th, un, s) ==
                Looked([s.w EXCEPT !.mm = Append(@, MapRow(u, message.message_id,
                                                           s.admin_message, FALSE, 0))],
                       s.admin_message, th.topic, un.topic)
            Listed(th, un) ==
                Sent(th, un, send_message_to_topic(un.w, u, premium[u], message, th.topic))
            Found(th) == Listed(th, get_system_topic(th.w, UNREAD_TOPIC_NAME))
        IN  /\ tasks[t].pc = "idle"
            /\ ~Relaying
            /\ next_id[u] <= budget.inbound
            /\ UNCHANGED budget
            /\ Found(create_or_get_user_topic(
                         Arrived(<<>>, "forwarding_message_u2a", u, u, FALSE, 0),
                         u, premium[u], FALSE, 0))

\* send_message has answered: the alert is in the unread thread, the row is
\* flagged and remembers the alert, and the session is committed.
AlertAnswered(t) ==
    LET a == tasks[t]
    IN  /\ a.pc = "send_message"
        /\ Written(AlertPosted([World(<<>>) EXCEPT !.ev = ev], a.row, a.user, a.admin_message,
                               a.link, a.unread_topic))
        /\ tasks' = [tasks EXCEPT ![t] = UnreadIdle]
        /\ UNCHANGED budget

\* The position after `from` of the next row whose alert is to be deleted,
\* 0 if there is none.
NextAlert(alerts, from) ==
    IF \E j \in (from + 1)..Len(alerts) : alerts[j] # 0
    THEN CHOOSE j \in (from + 1)..Len(alerts) :
             alerts[j] # 0 /\ \A i \in (from + 1)..(j - 1) : alerts[i] = 0
    ELSE 0

\* The commit that ends the loop: the rows the query returned are cleared
\* and stamped with the bot and the time.
MarksWritten(rows, time) ==
    message_map' = [k \in DOMAIN message_map |->
                       IF \E i \in DOMAIN rows : rows[i] = k
                       THEN [message_map[k] EXCEPT !.is_unread_topic = FALSE,
                                                   !.handled_by_user_id = BotId,
                                                   !.handled_time = time]
                       ELSE message_map[k]]

\* The mark-read loop starts for the private source of a user: the query
\* returns the unread rows; the loop changes them in its session and waits
\* for the deletion of the first alert, or commits if no row has one.
MarkTaskStarts(t) ==
    \E u \in Users :
        LET rows == AllRows(message_map, LAMBDA r : IsUnreadOf(r, u, FALSE, 0))
            alerts == [i \in DOMAIN rows |-> message_map[rows[i]].unread_topic_message_id]
            first == NextAlert(alerts, 0)
        IN  /\ tasks[t].pc = "idle"
            /\ budget.operator > 0
            /\ budget' = [budget EXCEPT !.operator = @ - 1]
            /\ rows # <<>>
            /\ IF first = 0
               THEN /\ MarksWritten(rows, now)
                    /\ UNCHANGED tasks
               ELSE /\ tasks' = [tasks EXCEPT ![t] =
                           [UnreadIdle EXCEPT !.pc = "delete_message", !.user = u,
                                              !.rows = rows, !.alerts = alerts,
                                              !.at = first, !.time = now]]
                    /\ UNCHANGED message_map
            /\ UNCHANGED <<formn_status, media_group_messages, user_table, message_thread_id,
                           job_queue, keyboards, next_id, now, premium, delivered, rejected,
                           deleted, has_job_queue, ev, retryVars>>

\* delete_message has answered: the alert is gone; the loop waits for the
\* deletion of the next alert, or commits after the last row.
DeleteAnswered(t) ==
    LET a == tasks[t]
        next == NextAlert(a.alerts, a.at)
    IN  /\ a.pc = "delete_message"
        /\ keyboards' = {b \in keyboards : b.message_id # a.alerts[a.at]}
        /\ IF next = 0
           THEN /\ MarksWritten(a.rows, a.time)
                /\ tasks' = [tasks EXCEPT ![t] = UnreadIdle]
           ELSE /\ tasks' = [tasks EXCEPT ![t] = [a EXCEPT !.at = next]]
                /\ UNCHANGED message_map
        /\ UNCHANGED <<formn_status, media_group_messages, user_table, message_thread_id,
                       job_queue, next_id, now, premium, budget, delivered, rejected,
                       deleted, has_job_queue, ev, retryVars>>

UnreadNext ==
    \/ \E t \in TaskIds : RelayTaskStarts(t)
    \/ \E t \in TaskIds : AlertAnswered(t)
    \/ \E t \in TaskIds : MarkTaskStarts(t)
    \/ \E t \in TaskIds : DeleteAnswered(t)

UnreadInit ==
    /\ RelayInit(Budget(0, MaxUnreadInbound, MaxUnreadMarks, 0, 0))
    /\ RetryParked
    /\ tasks = [t \in TaskIds |-> UnreadIdle]

SpecUnread == UnreadInit /\ [][UnreadNext]_vars

\* A task is in the mark-read loop for `user`.
Marking(user) == \E t \in TaskIds : tasks[t].pc = "delete_message" /\ tasks[t].user = user

\* Alert `id` is shown in the admin forum and no task has asked for its
\* deletion.
Outstanding(id) ==
    /\ \E b \in keyboards : b.message_id = id
    /\ ~\E t \in TaskIds : tasks[t].pc = "delete_message" /\ tasks[t].alerts[tasks[t].at] = id

\* C32: whatever the interleaving of relays and mark-read loops, when no
\* mark-read loop is under way for a user who has an unread private
\* cross-reference, one of the user's unread private rows carries the id
\* of an alert that is shown and is not being deleted.
C32_UnreadHasAlert ==
    \A u \in Users :
        ((\E i \in DOMAIN message_map : IsUnreadOf(message_map[i], u, FALSE, 0)) /\ ~Marking(u))
            => \E i \in DOMAIN message_map :
                   /\ IsUnreadOf(message_map[i], u, FALSE, 0)
                   /\ message_map[i].unread_topic_message_id # 0
                   /\ Outstanding(message_map[i].unread_topic_message_id)

\* The step is the run of forwarding_message_a2u for a message an operator
\* wrote in the private thread of a user, and no copy reached the user.
DeliveryFailed ==
    /\ Handled("forwarding_message_a2u")
    /\ ~ev'.from_group
    /\ ev'.scheduled = 0
    /\ ev'.relayed = <<>>

\* C33: when the relay of an operator's message to the user fails (the
\* recipient is unavailable, the error is permanent or the retries are
\* spent; no cross-reference is recorded), the unread state of the user is
\* left as it was: no cross-reference is cleared or stamped and no alert
\* is deleted.
C33_FailedDeliveryKeepsUnread ==
    [][DeliveryFailed =>
          /\ message_map' = message_map
          /\ keyboards' = keyboards
          /\ ev'.marked = 0
      ]_vars

\* C34: when the one call of create_or_get_user_topic that a handler of a
\* user's message makes returns no thread, formn_status holds no row that
\* it did not hold before the run: a failure to post the intro of a thread
\* just created leaves no row of that thread behind.
C34_NoThreadNoRecord ==
    [][(UserHandled /\ ev'.resolved = <<0>>) =>
          \A i \in DOMAIN formn_status' :
              \E j \in DOMAIN formn_status : formn_status[j] = formn_status'[i]
      ]_vars

\* Single messages and albums of users, private and in a group, over a
\* transport that may fail, the Premium status of the users changing.
RecoveryNext ==
    \/ FaultyNext
    \/ PremiumChanges

RecoveryInit ==
    /\ RelayInit(Budget(MaxFaults, MaxInbound, 0, 0, MaxPremiumChanges))
    /\ RetryParked
    /\ TopicInit

SpecRecovery == RecoveryInit /\ [][RecoveryNext]_vars

\* The rows of formn_status fs that are threads of the user and source.
ThreadsOf(fs, user, from_group, source_group_id) ==
    {i \in DOMAIN fs : /\ ~fs[i].is_system_topic
                       /\ fs[i].user_id = user
                       /\ fs[i].from_group = from_group
                       /\ from_group => fs[i].source_group_id = source_group_id}

\* After the step the user and source have one thread row, of the thread
\* the last call of create_or_get_user_topic returned, and no row names
\* thread `stale`.
Replaced1(user, from_group, source_group_id, stale) ==
    /\ Cardinality(ThreadsOf(formn_status', user, from_group, source_group_id)) = 1
    /\ \A i \in ThreadsOf(formn_status', user, from_group, source_group_id) :
           formn_status'[i].topic_id = ev'.resolved[Len(ev'.resolved)]
    /\ \A i \in DOMAIN formn_status' : formn_status'[i].topic_id # stale

\* The thread a relay found missing: the one the timer of a group album
\* was started with, else the one the handler resolved first.
StaleThread ==
    IF ev'.op = "send_group_media_to_admin"
    THEN (CHOOSE job \in job_queue \ job_queue' : TRUE).topic_id
    ELSE ev'.resolved[1]

\* C35: after a relay that went through after its thread had been reported
\* missing and replaced (a private message, a group message, a group
\* album), and after a label edit that found the thread missing and got a
\* new one, formn_status holds exactly one thread row of the user and
\* source, its thread is the new one, and no row names the missing thread.
C35_OneThreadAfterRecovery ==
    [][/\ (InboundRelayed /\ ev'.recreations >= 1) =>
              Replaced1(FirstRecorded.user_telegram_id, FirstRecorded.is_from_group,
                        FirstRecorded.source_group_id, StaleThread)
       /\ \A k \in DOMAIN formn_status :
              (/\ UserHandled
               /\ LabelEdited(ev')
               /\ IsThreadOf(formn_status[k], ev'.user, ev'.from_group, ev'.source_group_id)
               /\ ev'.resolved[1] \notin {0, formn_status[k].topic_id}) =>
                  Replaced1(ev'.user, ev'.from_group, ev'.source_group_id,
                            formn_status[k].topic_id)
      ]_vars

\* A group album was relayed into a thread created anew after the thread
\* its timer was started with had been reported missing.
C35_Witness ==
    /\ ev.op = "send_group_media_to_admin"
    /\ ev.recreations = 1
    /\ ev.relayed # <<>>
    /\ Cardinality(ThreadsOf(formn_status, ev.user, TRUE, -2002)) = 1
    /\ \A i \in ThreadsOf(formn_status, ev.user, TRUE, -2002) :
           formn_status[i].topic_id = ev.resolved[Len(ev.resolved)]

\* Private messages and group messages and albums of users, answered by
\* operators with single messages and albums.
ReplyNext ==
    \/ UserMessage(NoAlbum)
    \/ GroupMessage(AnyMessage)
    \/ OperatorMessage(AnyMessage)
    \/ JobRuns
    \/ Tick

ReplyInit ==
    /\ RelayInit(Budget(0, MaxInbound, MaxOperator, 0, 0))
    /\ RetryParked
    /\ TopicInit

SpecReply == ReplyInit /\ [][ReplyNext]_vars

\* The handlers of an operator's reply and of the mark-read buttons.
MarkHandledOps ==
    {"forwarding_message_a2u", "send_media_group_to_user", "send_admin_media_to_group",
     "read", "read_all"}

\* The step is a run of one of them that cleared the unread flag of row i
\* of message_map.
ClearedRow(i) ==
    /\ ev'.op \in MarkHandledOps
    /\ i \in DOMAIN message_map'
    /\ message_map[i].is_unread_topic
    /\ ~message_map'[i].is_unread_topic

MaxParts == 2

\* The ids of the parts of the album of `chat` that have reached the bot.
ArrivedParts(chat) ==
    {media_group_messages[i].message_id :
        i \in {j \in DOMAIN media_group_messages : media_group_messages[j].chat_id = chat}}

\* The update of a part: the message carries the id the chat gave it when
\* it was sent, and the chat's next id lies beyond it.
PartUpdate(orc, op, chat, user, from_group, id) ==
    [Started(orc, op, user, from_group, IF from_group THEN chat ELSE 0) EXCEPT
        !.ids[chat] = IF @ > id THEN @ ELSE id + 1]

\* The update of a part of a private album reaches forwarding_message_u2a.
UserPartArrives ==
    \E u \in Users, orc \in Oracles(MaxCalls), id \in 1..MaxParts, g \in Albums :
        /\ id \notin ArrivedParts(u)
        /\ Injects(orc)
        /\ Commit(forwarding_message_u2a(
               PartUpdate(orc, "forwarding_message_u2a", u, u, FALSE, id),
               u, premium[u], [Message(u, 0, 0, g, FALSE) EXCEPT !.message_id = id]))

\* The update of a part of a group album reaches handle_group_mention.
GroupPartArrives ==
    \E u \in Users, c \in Groups, orc \in Oracles(MaxCalls), id \in 1..MaxParts, g \in Albums :
    \E mentioned \in BOOLEAN :
        /\ id \notin ArrivedParts(c)
        /\ Injects(orc)
        /\ Commit(handle_group_mention(
               PartUpdate(orc, "handle_group_mention", c, u, TRUE, id),
               u, c, premium[u], [Message(c, 0, 0, g, mentioned) EXCEPT !.message_id = id]))

OrderNext ==
    \/ UserPartArrives
    \/ GroupPartArrives
    \/ JobRuns
    \/ Tick

OrderInit ==
    /\ RelayInit(Budget(0, 0, 0, 0, 0))
    /\ RetryParked
    /\ TopicInit

SpecOrder == OrderInit /\ [][OrderNext]_vars

\* The message ids of the stored parts of a batch in one chat, in the order
\* in which the parts arrived, which is the order of their rows.
ArrivalOrder(media_group_id, chat_id) ==
    LET idxs == AllRows(media_group_messages,
                        LAMBDA p : p.media_group_id = media_group_id /\ p.chat_id = chat_id)
    IN  [i \in 1..Len(idxs) |-> media_group_messages[idxs[i]].message_id]

\* C37: the timer of a user's batch that fires hands the parts to the
\* transport in the order in which they arrived, whatever their ids.
C37_ArrivalOrder ==
    [][\A job \in job_queue \ job_queue' :
          (/\ job.callback \in {"send_media_group_to_admin", "send_group_media_to_admin"}
           /\ ev'.batch # <<>>) =>
              ev'.batch = ArrivalOrder(job.media_group_id, job.chat_id)
      ]_vars

\* The deep-link buttons the step put under a new alert.
NewLinks == {b \in keyboards' \ keyboards : b.kind = "link"}

\* The thread rows registered after the step for the user and source of the
\* cross-reference that remembers alert `alert`.
RegisteredFor(alert) ==
    {formn_status'[i].topic_id :
        i \in {j \in DOMAIN formn_status' :
                 \E k \in DOMAIN message_map' :
                     /\ message_map'[k].unread_topic_message_id = alert
                     /\ ~formn_status'[j].is_system_topic
                     /\ formn_status'[j].user_id = message_map'[k].user_telegram_id
                     /\ formn_status'[j].from_group = message_map'[k].is_from_group
                     /\ message_map'[k].is_from_group =>
                            formn_status'[j].source_group_id = message_map'[k].source_group_id}}

\* C38: the deep link of every alert a step posts names the thread that is
\* registered for the alert's user and source when the step ends, also when
\* the step replaced a thread reported missing.
C38_LinkTargetsRegistered ==
    [][\A b \in NewLinks : b.arg \in RegisteredFor(b.message_id)]_vars

=============================================================================
